---- MODULE Spec2Model ----
(***************************************************************************)
(* Cuckoo hash sets of samir-s-hassan/Cuckoo_Hashing.                      *)
(*                                                                         *)
(* Spec      : CuckooSequentialSet (src/src/serial-cuckoo.h), one caller.  *)
(*                                                                         *)
(* A slot holds the value of the Entry it points to, or Null for nullptr.  *)
(* Keys are non-negative ints, for which std::hash<int> of libstdc++ is    *)
(* the identity.  Salts are kept modulo 2^SaltBits.                        *)
(***************************************************************************)
EXTENDS Integers, Sequences, FiniteSets, TLC

VARIABLES
    capacity,           \* int capacity
    maxDisplacements,   \* int maxDisplacements
    resizing,           \* bool resizing
    salt1,              \* size_t salt1
    salt2,              \* size_t salt2
    table,              \* std::vector<std::vector<Entry *>> table
    stack,              \* call stack of the single caller, innermost frame last
    last,               \* the public call in progress or last completed
    netAdds,            \* add calls that returned true minus remove calls that returned true
    nOps,               \* number of public calls made so far
    locks,              \* std::vector<std::vector<std::mutex>> locks: owner of each slot lock
    resizeLock,         \* std::mutex resizeLock: its owner
    lockGen,            \* how many times the locks vector has been replaced
    thr,                \* per thread: position in its call and the locals of that call
    started,            \* the worker threads have been spawned
    initialKeys,        \* the keys stored when the workers were spawned
    hist,               \* completed calls of the workers, with invocation and response stamps
    clock,              \* stamp of the next invocation or response
    ub                  \* undefined behaviour has been executed

vars == <<capacity, maxDisplacements, resizing, salt1, salt2, table,
          stack, last, netAdds, nOps,
          locks, resizeLock, lockGen, thr, started, initialKeys, hist, clock, ub>>

setVars == <<capacity, maxDisplacements, resizing, salt1, salt2, table>>

concVars == <<locks, resizeLock, lockGen, thr, started, initialKeys, hist, clock, ub>>

seqVars == <<resizing, stack, last, netAdds, nOps>>

----------------------------------------------------------------------------
(* Bounds *)

InitialCapacity == 3    \* argument of the constructor
MaxKeyBit == 3          \* keys are 2^0 .. 2^MaxKeyBit
SaltBits == 3           \* std::time and std::rand are drawn from 0 .. 2^SaltBits - 1
MaxResizes == 1         \* resize is not entered once capacity is InitialCapacity * 2^MaxResizes
MaxOps == 3             \* public calls per run
MaxListLen == 4         \* length of the list given to populate

(* Program constants *)

GoldenLow == 31161      \* 0x9e3779b9 modulo 2^16

Null == -1              \* nullptr

Keys == {2^b : b \in 0..MaxKeyBit}
Salts == 0..(2^SaltBits - 1)
Lists == UNION {[1..n -> Keys] : n \in 1..MaxListLen}
MaxCapacity == InitialCapacity * 2^MaxResizes

----------------------------------------------------------------------------
(* Hashing *)

RECURSIVE Xor(_, _)
Xor(a, b) ==
    IF a = 0 THEN b
    ELSE IF b = 0 THEN a
    ELSE (((a % 2) + (b % 2)) % 2) + 2 * Xor(a \div 2, b \div 2)

hash(key, seed, cap) == Xor(key, seed) % cap

hash1(key) == hash(key, salt1, capacity)

hash2(key) == hash(key, salt2, capacity)

EmptyTable(cap) == [t \in 0..1 |-> [j \in 0..(cap - 1) |-> Null]]

----------------------------------------------------------------------------
(* Observers *)

contains(value) ==
    \/ table[0][hash1(value)] = value
    \/ table[1][hash2(value)] = value

Slots == (0..1) \X (0..(capacity - 1))

size == Cardinality({s \in Slots : table[s[1]][s[2]] # Null})

SlotKeys == {table[s[1]][s[2]] : s \in {u \in Slots : table[u[1]][u[2]] # Null}}

Idle == stack = <<>>

Top == stack[Len(stack)]

Below == SubSeq(stack, 1, Len(stack) - 1)

----------------------------------------------------------------------------
(* Construction *)

NoCall == [op |-> "none", key |-> Null, list |-> <<>>, done |-> TRUE,
           ret |-> FALSE, count |-> 0, preHas |-> FALSE, preSize |-> 0,
           fresh |-> FALSE, again |-> FALSE, ret1 |-> FALSE, preHas1 |-> FALSE,
           preSize1 |-> 0, preKeys |-> {}]

(* The member initialisers shared by the constructors of the backends *)
ConstructOf(initialCapacity) ==
    /\ capacity = initialCapacity
    /\ maxDisplacements = initialCapacity \div 2
    /\ \E time \in Salts :
          /\ salt1 = time
          /\ salt2 = Xor(time, GoldenLow) % (2^SaltBits)
    /\ table = EmptyTable(initialCapacity)

Construct == ConstructOf(InitialCapacity)

(* The sequential backend has no locks and no threads *)
NoThreads ==
    /\ locks = <<>>
    /\ resizeLock = Null
    /\ lockGen = 0
    /\ thr = <<>>
    /\ started = FALSE
    /\ initialKeys = {}
    /\ hist = <<>>
    /\ clock = 0
    /\ ub = FALSE

Init ==
    /\ Construct
    /\ resizing = FALSE
    /\ stack = <<>>
    /\ last = NoCall
    /\ netAdds = 0
    /\ nOps = 0
    /\ NoThreads

----------------------------------------------------------------------------
(* Call records *)

Invoke(op, key, list) ==
    [op |-> op, key |-> key, list |-> list, done |-> FALSE,
     ret |-> FALSE, count |-> 0,
     preHas |-> IF key = Null THEN FALSE ELSE contains(key),
     preSize |-> size,
     fresh |-> nOps = 0,
     again |-> last.op = op /\ last.key = key /\ op # "populate",
     ret1 |-> IF last.op = op /\ last.key = key THEN last.ret ELSE FALSE,
     preHas1 |-> IF last.op = op /\ last.key = key THEN last.preHas ELSE FALSE,
     preSize1 |-> IF last.op = op /\ last.key = key THEN last.preSize ELSE 0,
     preKeys |-> SlotKeys]

AddFrame(value) == [fn |-> "add", pc |-> "check", value |-> value, temp |-> Null, i |-> 0]

----------------------------------------------------------------------------
(* bool contains(const T &value) *)

Contains(k) ==
    /\ Idle
    /\ nOps < MaxOps
    /\ nOps' = nOps + 1
    /\ last' = [Invoke("contains", k, <<>>) EXCEPT !.done = TRUE, !.ret = contains(k)]
    /\ UNCHANGED <<setVars, stack, netAdds, concVars>>

(* bool remove(const T &value) *)

RemoveSlotTable0Only(value) ==
    IF table[0][hash1(value)] = value THEN <<0, hash1(value)>>
    ELSE <<>>

RemoveSlot(value) ==
    IF table[0][hash1(value)] = value THEN <<0, hash1(value)>>
    ELSE IF table[1][hash2(value)] = value THEN <<1, hash2(value)>>
    ELSE <<>>

RemoveBothSlots(k) ==
    LET s == RemoveSlot(k) IN
    /\ Idle
    /\ nOps < MaxOps
    /\ nOps' = nOps + 1
    /\ table' = IF s = <<>> THEN table
                ELSE [table EXCEPT ![0][hash1(k)] = Null, ![1][hash2(k)] = Null]
    /\ last' = [Invoke("remove", k, <<>>) EXCEPT !.done = TRUE, !.ret = (s # <<>>)]
    /\ netAdds' = IF s = <<>> THEN netAdds ELSE netAdds - 1
    /\ UNCHANGED <<capacity, maxDisplacements, resizing, salt1, salt2, stack, concVars>>

Remove(k) ==
    LET s == RemoveSlot(k) IN
    /\ Idle
    /\ nOps < MaxOps
    /\ nOps' = nOps + 1
    /\ table' = IF s = <<>> THEN table ELSE [table EXCEPT ![s[1]][s[2]] = Null]
    /\ last' = [Invoke("remove", k, <<>>) EXCEPT !.done = TRUE, !.ret = (s # <<>>)]
    /\ netAdds' = IF s = <<>> THEN netAdds ELSE netAdds - 1
    /\ UNCHANGED <<capacity, maxDisplacements, resizing, salt1, salt2, stack, concVars>>

----------------------------------------------------------------------------
(* bool add(const T &value) *)

Add(k) ==
    /\ Idle
    /\ nOps < MaxOps
    /\ nOps' = nOps + 1
    /\ last' = Invoke("add", k, <<>>)
    /\ stack' = <<AddFrame(k)>>
    /\ UNCHANGED <<setVars, netAdds, concVars>>

(* add returns r to its caller: the public caller, populate or resize *)
AddReturns(r) ==
    IF Below = <<>>
    THEN /\ stack' = <<>>
         /\ last' = [last EXCEPT !.done = TRUE, !.ret = r]
         /\ netAdds' = netAdds + (IF r THEN 1 ELSE 0)
    ELSE LET c == Len(Below) IN
         IF Below[c].fn = "resize"
         THEN /\ stack' = [Below EXCEPT ![c].pos = @ + 1]
              /\ UNCHANGED <<last, netAdds>>
         ELSE /\ stack' = [Below EXCEPT ![c].idx = @ + 1,
                                        ![c].added = @ + (IF r THEN 1 ELSE 0)]
              /\ netAdds' = netAdds + (IF r THEN 1 ELSE 0)
              /\ UNCHANGED last

AddCheckNoDuplicateTest ==
    /\ ~Idle
    /\ Top.fn = "add"
    /\ Top.pc = "check"
    /\ stack' = [stack EXCEPT ![Len(stack)].pc = "loop",
                              ![Len(stack)].temp = Top.value,
                              ![Len(stack)].i = 0]
    /\ UNCHANGED <<setVars, last, netAdds, nOps, concVars>>

(* if (contains(value)) return false; Entry *temp = new Entry(value); *)
AddCheck ==
    /\ ~Idle
    /\ Top.fn = "add"
    /\ Top.pc = "check"
    /\ IF contains(Top.value)
       THEN AddReturns(FALSE)
       ELSE /\ stack' = [stack EXCEPT ![Len(stack)].pc = "loop",
                                      ![Len(stack)].temp = Top.value,
                                      ![Len(stack)].i = 0]
            /\ UNCHANGED <<last, netAdds>>
    /\ UNCHANGED <<setVars, nOps, concVars>>

AddIterSameIndex(tbl, temp) ==
    LET h1   == hash1(temp)
        old0 == tbl[0][h1]
        tbl0 == [tbl EXCEPT ![0][h1] = temp]
    IN  IF old0 = Null
        THEN [table |-> tbl0, temp |-> Null]
        ELSE LET h2   == hash1(old0)
                 old1 == tbl0[1][h2]
             IN  [table |-> [tbl0 EXCEPT ![1][h2] = old0], temp |-> old1]

(* one iteration of the displacement loop: swap into table 0, then table 1 *)
AddIter(tbl, temp) ==
    LET h1   == hash1(temp)
        old0 == tbl[0][h1]
        tbl0 == [tbl EXCEPT ![0][h1] = temp]
    IN  IF old0 = Null
        THEN [table |-> tbl0, temp |-> Null]
        ELSE LET h2   == hash2(old0)
                 old1 == tbl0[1][h2]
             IN  [table |-> [tbl0 EXCEPT ![1][h2] = old0], temp |-> old1]

AddLoop ==
    /\ ~Idle
    /\ Top.fn = "add"
    /\ Top.pc = "loop"
    /\ Top.i < maxDisplacements
    /\ LET r == AddIter(table, Top.temp) IN
          /\ table' = r.table
          /\ IF r.temp = Null
             THEN AddReturns(TRUE)
             ELSE /\ stack' = [stack EXCEPT ![Len(stack)].temp = r.temp,
                                            ![Len(stack)].i = @ + 1]
                  /\ UNCHANGED <<last, netAdds>>
    /\ UNCHANGED <<capacity, maxDisplacements, resizing, salt1, salt2, nOps, concVars>>

(* delete temp; resize(); return add(value);  resize is not entered once
   capacity has reached maxCap *)
AddExhaustedBelow(maxCap) ==
    /\ ~Idle
    /\ Top.fn = "add"
    /\ Top.pc = "loop"
    /\ Top.i >= maxDisplacements
    /\ IF resizing
       THEN \* resize() returns at once; add(value) starts again
            /\ stack' = [stack EXCEPT ![Len(stack)] = AddFrame(Top.value)]
            /\ UNCHANGED setVars
       ELSE /\ capacity < maxCap
            /\ resizing' = TRUE
            /\ capacity' = capacity * 2
            /\ maxDisplacements' = maxDisplacements * 2
            /\ table' = EmptyTable(capacity * 2)
            /\ \E r1 \in Salts, r2 \in Salts :
                  /\ salt1' = r1
                  /\ salt2' = r2
            /\ stack' = Append([stack EXCEPT ![Len(stack)] = AddFrame(Top.value)],
                               [fn |-> "resize", oldCap |-> capacity,
                                oldTable |-> table, pos |-> 0])
    /\ UNCHANGED <<last, netAdds, nOps, concVars>>

AddExhaustedNoRehash ==
    /\ ~Idle
    /\ Top.fn = "add"
    /\ Top.pc = "loop"
    /\ Top.i >= maxDisplacements
    /\ IF resizing
       THEN /\ stack' = [stack EXCEPT ![Len(stack)] = AddFrame(Top.value)]
            /\ UNCHANGED setVars
       ELSE /\ capacity < MaxCapacity
            /\ resizing' = TRUE
            /\ capacity' = capacity * 2
            /\ maxDisplacements' = maxDisplacements * 2
            /\ table' = [t \in 0..1 |-> [j \in 0..(capacity * 2 - 1) |->
                                           IF j < capacity THEN table[t][j] ELSE Null]]
            /\ \E r1 \in Salts, r2 \in Salts :
                  /\ salt1' = r1
                  /\ salt2' = r2
            /\ stack' = Append([stack EXCEPT ![Len(stack)] = AddFrame(Top.value)],
                               [fn |-> "resize", oldCap |-> capacity,
                                oldTable |-> EmptyTable(capacity), pos |-> 0])
    /\ UNCHANGED <<last, netAdds, nOps, concVars>>

AddExhaustedKeepsBudget ==
    /\ ~Idle
    /\ Top.fn = "add"
    /\ Top.pc = "loop"
    /\ Top.i >= maxDisplacements
    /\ IF resizing
       THEN /\ stack' = [stack EXCEPT ![Len(stack)] = AddFrame(Top.value)]
            /\ UNCHANGED setVars
       ELSE /\ capacity < MaxCapacity
            /\ resizing' = TRUE
            /\ capacity' = capacity * 2
            /\ maxDisplacements' = maxDisplacements
            /\ table' = EmptyTable(capacity * 2)
            /\ \E r1 \in Salts, r2 \in Salts :
                  /\ salt1' = r1
                  /\ salt2' = r2
            /\ stack' = Append([stack EXCEPT ![Len(stack)] = AddFrame(Top.value)],
                               [fn |-> "resize", oldCap |-> capacity,
                                oldTable |-> table, pos |-> 0])
    /\ UNCHANGED <<last, netAdds, nOps, concVars>>

AddExhausted == AddExhaustedBelow(MaxCapacity)

----------------------------------------------------------------------------
(* void resize(): the loop re-adding the entries of oldTable *)

Occupied(f) ==
    {n \in f.pos..(2 * f.oldCap - 1) :
        f.oldTable[n \div f.oldCap][n % f.oldCap] # Null}

Min(S) == CHOOSE n \in S : \A m \in S : n <= m

ResizeLoopKeepsFlag ==
    /\ ~Idle
    /\ Top.fn = "resize"
    /\ IF Occupied(Top) # {}
       THEN LET n == Min(Occupied(Top)) IN
            /\ stack' = Append([stack EXCEPT ![Len(stack)].pos = n],
                               AddFrame(Top.oldTable[n \div Top.oldCap][n % Top.oldCap]))
            /\ UNCHANGED resizing
       ELSE /\ UNCHANGED resizing
            /\ stack' = Below
    /\ UNCHANGED <<capacity, maxDisplacements, salt1, salt2, table, last, netAdds, nOps, concVars>>

ResizeLoop ==
    /\ ~Idle
    /\ Top.fn = "resize"
    /\ IF Occupied(Top) # {}
       THEN LET n == Min(Occupied(Top)) IN
            /\ stack' = Append([stack EXCEPT ![Len(stack)].pos = n],
                               AddFrame(Top.oldTable[n \div Top.oldCap][n % Top.oldCap]))
            /\ UNCHANGED resizing
       ELSE /\ resizing' = FALSE
            /\ stack' = Below
    /\ UNCHANGED <<capacity, maxDisplacements, salt1, salt2, table, last, netAdds, nOps, concVars>>

----------------------------------------------------------------------------
(* int populate(const std::vector<T> &list) *)

PopulateOf(lists) ==
    /\ Idle
    /\ nOps = 0
    /\ nOps' = nOps + 1
    /\ \E list \in lists :
          /\ last' = Invoke("populate", Null, list)
          /\ stack' = <<[fn |-> "populate", list |-> list, idx |-> 1, added |-> 0]>>
    /\ UNCHANGED <<setVars, netAdds, concVars>>

Populate == PopulateOf(Lists)

PopulateLoop ==
    /\ ~Idle
    /\ Top.fn = "populate"
    /\ IF Top.idx <= Len(Top.list)
       THEN /\ stack' = Append(stack, AddFrame(Top.list[Top.idx]))
            /\ UNCHANGED last
       ELSE /\ stack' = <<>>
            /\ last' = [last EXCEPT !.done = TRUE, !.count = Top.added]
    /\ UNCHANGED <<setVars, netAdds, nOps, concVars>>

----------------------------------------------------------------------------

Next ==
    \/ \E k \in Keys : Contains(k)
    \/ \E k \in Keys : Remove(k)
    \/ \E k \in Keys : Add(k)
    \/ Populate
    \/ AddCheck
    \/ AddLoop
    \/ AddExhausted
    \/ ResizeLoop
    \/ PopulateLoop

Spec == Init /\ [][Next]_vars

----------------------------------------------------------------------------
(* SpecAnyCapacity : the sequential set constructed with any initial
   capacity from 1 up, then used as in Spec. *)

InitAnyCapacity ==
    /\ \E initialCapacity \in 1..InitialCapacity : ConstructOf(initialCapacity)
    /\ resizing = FALSE
    /\ stack = <<>>
    /\ last = NoCall
    /\ netAdds = 0
    /\ nOps = 0
    /\ NoThreads

SpecAnyCapacity == InitAnyCapacity /\ [][Next]_vars

----------------------------------------------------------------------------
(* SpecWide : the sequential set constructed with twice the capacity and
   populated once, from a list over keys of which three share one slot in
   both tables after a resize.  The steps of a call are taken as long as
   one is enabled. *)

WideCapacity == 2 * InitialCapacity
WideMaxCapacity == 2 * WideCapacity
WideKeys == {2, 4, 8, 32}
WideLists == UNION {[1..n -> WideKeys] : n \in 1..MaxListLen}

InitWide ==
    /\ ConstructOf(WideCapacity)
    /\ resizing = FALSE
    /\ stack = <<>>
    /\ last = NoCall
    /\ netAdds = 0
    /\ nOps = 0
    /\ NoThreads

CallStep ==
    \/ AddCheck
    \/ AddLoop
    \/ AddExhaustedBelow(WideMaxCapacity)
    \/ ResizeLoop
    \/ PopulateLoop

NextWide ==
    \/ PopulateOf(WideLists)
    \/ AddCheck
    \/ AddLoop
    \/ AddExhaustedBelow(WideMaxCapacity)
    \/ ResizeLoop
    \/ PopulateLoop

SpecWide == InitWide /\ [][NextWide]_vars /\ WF_vars(CallStep)

----------------------------------------------------------------------------
(***************************************************************************)
(* SpecConc  : CuckooConcurrentSet (src/src/concurrent-cuckoo.h).          *)
(*                                                                         *)
(* The main thread populates the set, then spawns the workers              *)
(* (src/src/main.cc, lines 210-214).  A block { auto lock = acquire(t, h); *)
(* ... } is two steps: the index is computed and the lock taken, then the  *)
(* slot is accessed and the lock released.  capacity, the salts, table     *)
(* and locks are read and written by resize without any slot lock.         *)
(***************************************************************************)

NumThreads == 2         \* worker threads
MaxThreadOps == 1       \* calls per worker
MaxPopulate == 2        \* length of the list the main thread populates
ConcKeyBit == 2         \* the threads use the keys 2^0 .. 2^ConcKeyBit
ConcSaltBits == 1       \* std::rand in resize is drawn from 0 .. 2^ConcSaltBits - 1

Main == 0
Workers == 1..NumThreads
Threads == 0..NumThreads
ConcKeys == {2^b : b \in 0..ConcKeyBit}
ConcSalts == 0..(2^ConcSaltBits - 1)
ConcLists == UNION {[1..n -> ConcKeys] : n \in 0..MaxPopulate}

FreeLocks(cap) == [t \in 0..1 |-> [j \in 0..(cap - 1) |-> Null]]

IdleThread == [pc |-> "idle", op |-> "none", key |-> Null, inAdd |-> FALSE,
               displaced |-> Null, i |-> 0, lk |-> <<>>, inv |-> 0, ops |-> 0,
               oldCapacity |-> 0, newTable |-> <<>>, pos |-> 0,
               list |-> <<>>, idx |-> 0, added |-> 0, allValues |-> <<>>,
               size0 |-> 0, exitCode |-> Null]

InitConc ==
    /\ Construct
    /\ locks = FreeLocks(InitialCapacity)
    /\ resizeLock = Null
    /\ lockGen = 0
    /\ thr = [t \in Threads |-> IdleThread]
    /\ started = FALSE
    /\ initialKeys = {}
    /\ hist = <<>>
    /\ clock = 0
    /\ ub = FALSE
    /\ resizing = FALSE
    /\ stack = <<>>
    /\ last = NoCall
    /\ netAdds = 0
    /\ nOps = 0

Crashed == \E t \in Threads : thr[t].pc = "crashed"

(* bool add(value) begins with contains(value) *)
EnterAdd(th, k) ==
    [th EXCEPT !.pc = "c0_acq", !.key = k, !.inAdd = TRUE, !.displaced = Null, !.i = 0]

----------------------------------------------------------------------------
(* int populate(const std::vector<T> &list), called by the main thread *)

ConcPopulateOf(lists) ==
    /\ ~started
    /\ thr[Main].pc = "idle"
    /\ \E list \in lists :
          thr' = [thr EXCEPT ![Main] = [@ EXCEPT !.pc = "p_loop", !.op = "populate",
                                                 !.list = list, !.idx = 1, !.added = 0]]
    /\ UNCHANGED <<setVars, seqVars, locks, resizeLock, lockGen, started, initialKeys,
                   hist, clock, ub>>

ConcPopulate == ConcPopulateOf(ConcLists)

(* the loop of populate; when it ends the workers are spawned *)
ConcPopulateLoop ==
    /\ ~Crashed
    /\ thr[Main].pc = "p_loop"
    /\ IF thr[Main].idx <= Len(thr[Main].list)
       THEN /\ thr' = [thr EXCEPT ![Main] = EnterAdd(@, thr[Main].list[thr[Main].idx])]
            /\ UNCHANGED <<started, initialKeys>>
       ELSE /\ thr' = [thr EXCEPT ![Main] = [@ EXCEPT !.pc = "joining", !.ops = 1]]
            /\ started' = TRUE
            /\ initialKeys' = SlotKeys
    /\ UNCHANGED <<setVars, seqVars, locks, resizeLock, lockGen, hist, clock, ub>>

----------------------------------------------------------------------------
(* Calls made by the workers *)

CanCall(t) ==
    /\ started
    /\ ~Crashed
    /\ thr[t].pc = "idle"
    /\ thr[t].ops < MaxThreadOps

ConcContains(t, k) ==
    /\ CanCall(t)
    /\ thr' = [thr EXCEPT ![t] = [@ EXCEPT !.pc = "c0_acq", !.op = "contains", !.key = k,
                                           !.inAdd = FALSE, !.inv = clock]]
    /\ clock' = clock + 1
    /\ UNCHANGED <<setVars, seqVars, locks, resizeLock, lockGen, started, initialKeys, hist, ub>>

ConcAdd(t, k) ==
    /\ CanCall(t)
    /\ thr' = [thr EXCEPT ![t] = [EnterAdd(@, k) EXCEPT !.op = "add", !.inv = clock]]
    /\ clock' = clock + 1
    /\ UNCHANGED <<setVars, seqVars, locks, resizeLock, lockGen, started, initialKeys, hist, ub>>

ConcRemove(t, k) ==
    /\ CanCall(t)
    /\ thr' = [thr EXCEPT ![t] = [@ EXCEPT !.pc = "d0_acq", !.op = "remove", !.key = k,
                                           !.inAdd = FALSE, !.inv = clock]]
    /\ clock' = clock + 1
    /\ UNCHANGED <<setVars, seqVars, locks, resizeLock, lockGen, started, initialKeys, hist, ub>>

(* a call of thread t returns r: to populate on the main thread, to the
   benchmark loop on a worker *)
Returned(t, r) ==
    IF thr[t].op = "populate"
    THEN [thr[t] EXCEPT !.pc = "p_loop", !.idx = @ + 1, !.lk = <<>>,
                        !.added = @ + (IF r THEN 1 ELSE 0)]
    ELSE [thr[t] EXCEPT !.pc = "idle", !.ops = @ + 1, !.lk = <<>>]

Record(t, r) ==
    IF thr[t].op = "populate"
    THEN /\ UNCHANGED <<hist, clock>>
    ELSE /\ hist' = Append(hist, [th |-> t, op |-> thr[t].op, key |-> thr[t].key,
                                  ret |-> r, inv |-> thr[t].inv, res |-> clock])
         /\ clock' = clock + 1

----------------------------------------------------------------------------
(* std::unique_lock<std::mutex> acquire(int tableIndex, int index) *)

AcquirePcs == {"c0_acq", "c1_acq", "a0_acq", "a1_acq", "d0_acq", "d1_acq"}

BodyOf(pc) ==
    CASE pc = "c0_acq" -> "c0_body"
      [] pc = "c1_acq" -> "c1_body"
      [] pc = "a0_acq" -> "a0_body"
      [] pc = "a1_acq" -> "a1_body"
      [] pc = "d0_acq" -> "d0_body"
      [] pc = "d1_acq" -> "d1_body"

TableOf(pc) == IF pc \in {"c0_acq", "a0_acq", "d0_acq"} THEN 0 ELSE 1

(* hash1 or hash2 of the value the thread is working on *)
IndexOf(th) ==
    LET v == IF th.pc \in {"a0_acq", "a1_acq"} THEN th.displaced ELSE th.key
    IN  IF TableOf(th.pc) = 0 THEN hash1(v) ELSE hash2(v)

WantsLock(t) ==
    /\ ~Crashed
    /\ thr[t].pc \in AcquirePcs
    /\ thr[t].pc = "a0_acq" => thr[t].i < maxDisplacements

ConcAcquire(t) ==
    LET tb == TableOf(thr[t].pc)
        h  == IndexOf(thr[t])
    IN  /\ WantsLock(t)
        /\ h \in DOMAIN locks[tb]
        /\ locks[tb][h] = Null
        /\ locks' = [locks EXCEPT ![tb][h] = t]
        /\ thr' = [thr EXCEPT ![t] = [@ EXCEPT !.pc = BodyOf(@), !.lk = <<tb, h, lockGen>>]]
        /\ UNCHANGED <<setVars, seqVars, resizeLock, lockGen, started, initialKeys,
                       hist, clock, ub>>

(* the index was computed with a capacity larger than locks[tb]: what is
   locked is not a mutex of the vector; the thread goes on, or blocks for
   ever on memory that reads as a locked mutex, or the process dies *)
ConcAcquireOutOfRange(t) ==
    LET tb == TableOf(thr[t].pc)
        h  == IndexOf(thr[t])
    IN  /\ WantsLock(t)
        /\ h \notin DOMAIN locks[tb]
        /\ ub' = TRUE
        /\ \/ thr' = [thr EXCEPT ![t] = [@ EXCEPT !.pc = BodyOf(@), !.lk = <<tb, h, -1>>]]
           \/ thr' = [thr EXCEPT ![t] = [@ EXCEPT !.pc = "hung"]]
           \/ thr' = [thr EXCEPT ![t] = [@ EXCEPT !.pc = "crashed"]]
        /\ UNCHANGED <<setVars, seqVars, locks, resizeLock, lockGen, started, initialKeys,
                       hist, clock>>

(* the values a read of table[tb][h] can give *)
SlotValues(lk) ==
    IF lk[2] \in DOMAIN table[lk[1]] THEN {table[lk[1]][lk[2]]} ELSE ConcKeys \cup {Null}

(* table[tb][h] = v; a write outside the vector does not reach the table *)
SlotWrite(lk, v) ==
    IF lk[2] \in DOMAIN table[lk[1]] THEN [table EXCEPT ![lk[1]][lk[2]] = v] ELSE table

(* the unique_lock goes out of scope *)
Release(t) ==
    LET lk == thr[t].lk IN
    IF lk[3] = lockGen /\ lk[2] \in DOMAIN locks[lk[1]] /\ locks[lk[1]][lk[2]] = t
    THEN /\ locks' = [locks EXCEPT ![lk[1]][lk[2]] = Null]
         /\ UNCHANGED ub
    ELSE /\ ub' = TRUE
         /\ UNCHANGED locks

----------------------------------------------------------------------------
(* bool contains(const T &value), also as called by add *)

ConcContainsBody(t) ==
    /\ ~Crashed
    /\ thr[t].pc \in {"c0_body", "c1_body"}
    /\ Release(t)
    /\ \E cur \in SlotValues(thr[t].lk) :
          IF cur = thr[t].key
          THEN \* found: contains returns true, add returns false
               /\ thr' = [thr EXCEPT ![t] = Returned(t, ~thr[t].inAdd)]
               /\ Record(t, ~thr[t].inAdd)
          ELSE IF thr[t].pc = "c0_body"
          THEN /\ thr' = [thr EXCEPT ![t] = [@ EXCEPT !.pc = "c1_acq", !.lk = <<>>]]
               /\ UNCHANGED <<hist, clock>>
          ELSE IF thr[t].inAdd
          THEN \* Entry *displaced = new Entry(value);
               /\ thr' = [thr EXCEPT ![t] = [@ EXCEPT !.pc = "a0_acq", !.lk = <<>>,
                                                      !.displaced = thr[t].key, !.i = 0]]
               /\ UNCHANGED <<hist, clock>>
          ELSE /\ thr' = [thr EXCEPT ![t] = Returned(t, FALSE)]
               /\ Record(t, FALSE)
    /\ UNCHANGED <<setVars, seqVars, resizeLock, lockGen, started, initialKeys>>

----------------------------------------------------------------------------
(* bool add(const T &value): one locked block of the displacement loop *)

ConcAddBody(t) ==
    /\ ~Crashed
    /\ thr[t].pc \in {"a0_body", "a1_body"}
    /\ Release(t)
    /\ table' = SlotWrite(thr[t].lk, thr[t].displaced)
    /\ \E cur \in SlotValues(thr[t].lk) :
          IF cur = Null
          THEN /\ thr' = [thr EXCEPT ![t] = Returned(t, TRUE)]
               /\ Record(t, TRUE)
          ELSE /\ thr' = [thr EXCEPT ![t] =
                            [@ EXCEPT !.displaced = cur, !.lk = <<>>,
                                      !.pc = IF @ = "a0_body" THEN "a1_acq" ELSE "a0_acq",
                                      !.i = IF thr[t].pc = "a1_body" THEN @ + 1 ELSE @]]
               /\ UNCHANGED <<hist, clock>>
    /\ UNCHANGED <<capacity, maxDisplacements, salt1, salt2, seqVars, resizeLock, lockGen,
                   started, initialKeys>>

(* delete displaced; resize(); *)
ConcAddExhausted(t) ==
    /\ ~Crashed
    /\ thr[t].pc = "a0_acq"
    /\ thr[t].i >= maxDisplacements
    /\ thr' = [thr EXCEPT ![t] = [@ EXCEPT !.pc = "r_lock", !.displaced = Null]]
    /\ UNCHANGED <<setVars, seqVars, locks, resizeLock, lockGen, started, initialKeys,
                   hist, clock, ub>>

----------------------------------------------------------------------------
(* bool remove(const T &value) *)

ConcRemoveBody(t) ==
    /\ ~Crashed
    /\ thr[t].pc \in {"d0_body", "d1_body"}
    /\ Release(t)
    /\ \E cur \in SlotValues(thr[t].lk) :
          IF cur = thr[t].key
          THEN /\ table' = SlotWrite(thr[t].lk, Null)
               /\ thr' = [thr EXCEPT ![t] = Returned(t, TRUE)]
               /\ Record(t, TRUE)
          ELSE IF thr[t].pc = "d0_body"
          THEN /\ thr' = [thr EXCEPT ![t] = [@ EXCEPT !.pc = "d1_acq", !.lk = <<>>]]
               /\ UNCHANGED <<table, hist, clock>>
          ELSE /\ thr' = [thr EXCEPT ![t] = Returned(t, FALSE)]
               /\ Record(t, FALSE)
               /\ UNCHANGED table
    /\ UNCHANGED <<capacity, maxDisplacements, salt1, salt2, seqVars, resizeLock, lockGen,
                   started, initialKeys>>

----------------------------------------------------------------------------
(* void resize() *)

(* std::unique_lock<std::mutex> globalResize(resizeLock); *)
ConcResizeLock(t) ==
    /\ ~Crashed
    /\ thr[t].pc = "r_lock"
    /\ resizeLock = Null
    /\ resizeLock' = t
    /\ thr' = [thr EXCEPT ![t] = [@ EXCEPT !.pc = "r_begin"]]
    /\ UNCHANGED <<setVars, seqVars, locks, lockGen, started, initialKeys, hist, clock, ub>>

(* capacity and maxDisplacements are doubled, newTable is allocated, the
   salts are drawn *)
ConcResizeDraw(t, rands) ==
    /\ ~Crashed
    /\ thr[t].pc = "r_begin"
    /\ capacity < MaxCapacity
    /\ capacity' = capacity * 2
    /\ maxDisplacements' = maxDisplacements * 2
    /\ \E r1 \in rands, r2 \in rands :
          /\ salt1' = r1
          /\ salt2' = r2
    /\ thr' = [thr EXCEPT ![t] = [@ EXCEPT !.pc = "r_scan", !.oldCapacity = capacity,
                                           !.newTable = EmptyTable(capacity * 2),
                                           !.pos = 0]]
    /\ UNCHANGED <<table, seqVars, locks, resizeLock, lockGen, started, initialKeys,
                   hist, clock, ub>>

ConcResizeBegin(t) == ConcResizeDraw(t, ConcSalts)

(* the displacement loop that places entry in newTable; the entry left
   over after maxDisplacements rounds is deleted *)
RECURSIVE Rehash(_, _, _)
Rehash(tbl, entry, d) ==
    IF d >= maxDisplacements THEN tbl
    ELSE LET h1 == hash1(entry) IN
         IF tbl[0][h1] = Null THEN [tbl EXCEPT ![0][h1] = entry]
         ELSE LET e1   == tbl[0][h1]
                  tbl1 == [tbl EXCEPT ![0][h1] = entry]
                  h2   == hash2(e1)
              IN  IF tbl1[1][h2] = Null THEN [tbl1 EXCEPT ![1][h2] = e1]
                  ELSE Rehash([tbl1 EXCEPT ![1][h2] = e1], tbl1[1][h2], d + 1)

(* Entry *entry = table[t][i]; read without the slot lock *)
ConcResizeScan(t) ==
    /\ ~Crashed
    /\ thr[t].pc = "r_scan"
    /\ thr[t].pos < 2 * thr[t].oldCapacity
    /\ LET entry == table[thr[t].pos \div thr[t].oldCapacity][thr[t].pos % thr[t].oldCapacity]
       IN  thr' = [thr EXCEPT ![t] =
                     [@ EXCEPT !.pos = @ + 1,
                               !.newTable = IF entry = Null THEN @ ELSE Rehash(@, entry, 0)]]
    /\ UNCHANGED <<setVars, seqVars, locks, resizeLock, lockGen, started, initialKeys,
                   hist, clock, ub>>

(* table = std::move(newTable); locks = std::move(newLocks); resizeLock is
   released; return add(value); *)
ConcResizeSwap(t) ==
    /\ ~Crashed
    /\ thr[t].pc = "r_scan"
    /\ thr[t].pos = 2 * thr[t].oldCapacity
    /\ table' = thr[t].newTable
    /\ locks' = FreeLocks(capacity)
    /\ lockGen' = lockGen + 1
    /\ resizeLock' = Null
    /\ thr' = [thr EXCEPT ![t] = [EnterAdd(@, thr[t].key) EXCEPT !.newTable = <<>>,
                                                                 !.oldCapacity = 0, !.pos = 0]]
    /\ UNCHANGED <<capacity, maxDisplacements, salt1, salt2, seqVars, started, initialKeys,
                   hist, clock, ub>>

----------------------------------------------------------------------------
(* int main(): the workers are joined, the size check is printed, return 0; *)

ConcMainReturn ==
    /\ ~Crashed
    /\ thr[Main].pc = "joining"
    /\ \A t \in Workers : thr[t].pc = "idle" /\ thr[t].ops = MaxThreadOps
    /\ thr' = [thr EXCEPT ![Main] = [@ EXCEPT !.pc = "exited", !.exitCode = 0]]
    /\ UNCHANGED <<setVars, seqVars, locks, resizeLock, lockGen, started, initialKeys,
                   hist, clock, ub>>

----------------------------------------------------------------------------

NextConc ==
    \/ ConcPopulate
    \/ ConcPopulateLoop
    \/ \E t \in Workers, k \in ConcKeys : ConcContains(t, k)
    \/ \E t \in Workers, k \in ConcKeys : ConcAdd(t, k)
    \/ \E t \in Workers, k \in ConcKeys : ConcRemove(t, k)
    \/ \E t \in Threads : ConcAcquire(t)
    \/ \E t \in Threads : ConcAcquireOutOfRange(t)
    \/ \E t \in Threads : ConcContainsBody(t)
    \/ \E t \in Threads : ConcAddBody(t)
    \/ \E t \in Threads : ConcAddExhausted(t)
    \/ \E t \in Threads : ConcRemoveBody(t)
    \/ \E t \in Threads : ConcResizeLock(t)
    \/ \E t \in Threads : ConcResizeBegin(t)
    \/ \E t \in Threads : ConcResizeScan(t)
    \/ \E t \in Threads : ConcResizeSwap(t)
    \/ ConcMainReturn

SpecConc == InitConc /\ [][NextConc]_vars

(* SpecConcSingle : the same set used by the main thread alone, which
   populates it from a list over Keys; std::rand is drawn from Salts *)

NextConcSingle ==
    \/ ConcPopulateOf(Lists)
    \/ ConcPopulateLoop
    \/ ConcAcquire(Main)
    \/ ConcContainsBody(Main)
    \/ ConcAddBody(Main)
    \/ ConcAddExhausted(Main)
    \/ ConcResizeLock(Main)
    \/ ConcResizeDraw(Main, Salts)
    \/ ConcResizeScan(Main)
    \/ ConcResizeSwap(Main)

SpecConcSingle == InitConc /\ [][NextConcSingle]_vars

(* the steps of thread t; the scheduler runs every thread that can step *)
ThreadStep(t) ==
    \/ t = Main /\ ConcPopulateLoop
    \/ t = Main /\ ConcMainReturn
    \/ ConcAcquire(t)
    \/ ConcAcquireOutOfRange(t)
    \/ ConcContainsBody(t)
    \/ ConcAddBody(t)
    \/ ConcAddExhausted(t)
    \/ ConcRemoveBody(t)
    \/ ConcResizeLock(t)
    \/ ConcResizeBegin(t)
    \/ ConcResizeScan(t)
    \/ ConcResizeSwap(t)

SpecConcFair == SpecConc /\ \A t \in Threads : WF_vars(ThreadStep(t))

----------------------------------------------------------------------------
(***************************************************************************)
(* SpecTx  : CuckooTransactionalSet (src/src/transactional-cuckoo.h).      *)
(*                                                                         *)
(* A __transaction_atomic block is one step.  The code of add between and  *)
(* after its two blocks, and the whole of resize, are outside any          *)
(* transaction.  A slot whose Entry was deleted while the table still      *)
(* points to it holds Tag(g), g being what the freed memory reads as.      *)
(***************************************************************************)

Garbage == 0            \* a value no thread uses as a key
Tag(v) == -(v + 2)
Dangling(c) == c < Null
Val(c) == IF Dangling(c) THEN -(c + 2) ELSE c
FreedValues == ConcKeys \cup {Garbage}

InitTx ==
    /\ Construct
    /\ locks = <<>>
    /\ resizeLock = Null
    /\ lockGen = 0
    /\ thr = [t \in Threads |-> IdleThread]
    /\ started = FALSE
    /\ initialKeys = {}
    /\ hist = <<>>
    /\ clock = 0
    /\ ub = FALSE
    /\ resizing = FALSE
    /\ stack = <<>>
    /\ last = NoCall
    /\ netAdds = 0
    /\ nOps = 0

txRest == <<stack, last, netAdds, nOps, locks, resizeLock, lockGen>>

(* the keys contains answers true for *)
TxMembers == {k \in ConcKeys : \/ Val(table[0][hash1(k)]) = k
                               \/ Val(table[1][hash2(k)]) = k}

(* populate: the loop calls add; when it ends the workers are spawned *)
TxPopulateLoop ==
    /\ ~Crashed
    /\ thr[Main].pc = "p_loop"
    /\ IF thr[Main].idx <= Len(thr[Main].list)
       THEN /\ thr' = [thr EXCEPT ![Main] = [@ EXCEPT !.pc = "t_check",
                                                     !.key = thr[Main].list[thr[Main].idx]]]
            /\ UNCHANGED <<started, initialKeys>>
       ELSE /\ thr' = [thr EXCEPT ![Main] = [@ EXCEPT !.pc = "joining", !.ops = 1,
                                                     !.size0 = size]]
            /\ started' = TRUE
            /\ initialKeys' = TxMembers
    /\ UNCHANGED <<setVars, txRest, hist, clock, ub>>

(* thread t invokes op(k) *)
TxInvoke(t, op, k) ==
    /\ started
    /\ ~Crashed
    /\ thr[t].pc = "idle"
    /\ thr' = [thr EXCEPT ![t] = [@ EXCEPT !.op = op, !.key = k, !.inv = clock,
                                           !.pc = CASE op = "contains" -> "t_contains"
                                                    [] op = "remove"   -> "t_remove"
                                                    [] op = "add"      -> "t_check"]]
    /\ clock' = clock + 1
    /\ UNCHANGED <<setVars, txRest, started, initialKeys, hist, ub>>

(* a worker calls contains, add or remove *)
TxCall(t, op, k) ==
    /\ thr[t].ops < MaxThreadOps
    /\ TxInvoke(t, op, k)

(* the slot in which the lookup of contains and remove finds k *)
TxFind(k) ==
    IF Val(table[0][hash1(k)]) = k THEN <<0, hash1(k)>>
    ELSE IF Val(table[1][hash2(k)]) = k THEN <<1, hash2(k)>>
    ELSE <<>>

(* the lookup indexes a table beyond its end: capacity is already doubled,
   the table is not yet replaced *)
TxOutOfRange(k) ==
    IF hash1(k) \notin DOMAIN table[0] THEN TRUE
    ELSE IF Val(table[0][hash1(k)]) = k THEN FALSE
    ELSE hash2(k) \notin DOMAIN table[1]

(* the lookup reads ->value of a deleted Entry *)
TxReadsFreed(k) ==
    IF Dangling(table[0][hash1(k)]) THEN TRUE
    ELSE IF Val(table[0][hash1(k)]) = k THEN FALSE
    ELSE Dangling(table[1][hash2(k)])

(* bool contains(const T &value) const *)
TxContains(t) ==
    /\ ~Crashed
    /\ thr[t].pc = "t_contains"
    /\ ~TxOutOfRange(thr[t].key)
    /\ ub' = (ub \/ TxReadsFreed(thr[t].key))
    /\ thr' = [thr EXCEPT ![t] = Returned(t, TxFind(thr[t].key) # <<>>)]
    /\ Record(t, TxFind(thr[t].key) # <<>>)
    /\ UNCHANGED <<setVars, txRest, started, initialKeys>>

(* bool remove(const T &value); delete of an Entry that is already deleted
   aborts the process or goes unnoticed *)
TxRemove(t) ==
    LET s == TxFind(thr[t].key) IN
    /\ ~Crashed
    /\ thr[t].pc = "t_remove"
    /\ ~TxOutOfRange(thr[t].key)
    /\ ub' = (ub \/ TxReadsFreed(thr[t].key))
    /\ IF s = <<>>
       THEN /\ thr' = [thr EXCEPT ![t] = Returned(t, FALSE)]
            /\ Record(t, FALSE)
            /\ UNCHANGED table
       ELSE /\ table' = [table EXCEPT ![s[1]][s[2]] = Null]
            /\ \/ /\ thr' = [thr EXCEPT ![t] = Returned(t, TRUE)]
                  /\ Record(t, TRUE)
               \/ /\ Dangling(table[s[1]][s[2]])
                  /\ thr' = [thr EXCEPT ![t] = [@ EXCEPT !.pc = "crashed"]]
                  /\ UNCHANGED <<hist, clock>>
    /\ UNCHANGED <<capacity, maxDisplacements, resizing, salt1, salt2, txRest,
                   started, initialKeys>>

(* add: the first atomic block, valueExists = contains(value) *)
TxAddCheck(t) ==
    /\ ~Crashed
    /\ thr[t].pc = "t_check"
    /\ ~TxOutOfRange(thr[t].key)
    /\ ub' = (ub \/ TxReadsFreed(thr[t].key))
    /\ IF TxFind(thr[t].key) # <<>>
       THEN /\ thr' = [thr EXCEPT ![t] = Returned(t, FALSE)]
            /\ Record(t, FALSE)
       ELSE /\ thr' = [thr EXCEPT ![t] = [@ EXCEPT !.pc = "t_chain"]]
            /\ UNCHANGED <<hist, clock>>
    /\ UNCHANGED <<setVars, txRest, started, initialKeys>>

(* an atomic block of contains, remove or add indexes a table beyond its
   end: the process dies, or the block sees no match there *)
TxStrayLookup(t) ==
    /\ ~Crashed
    /\ thr[t].pc \in {"t_contains", "t_remove", "t_check"}
    /\ TxOutOfRange(thr[t].key)
    /\ ub' = TRUE
    /\ \/ /\ thr' = [thr EXCEPT ![t] = [@ EXCEPT !.pc = "crashed"]]
          /\ UNCHANGED <<hist, clock>>
       \/ /\ thr[t].pc = "t_check"
          /\ thr' = [thr EXCEPT ![t] = [@ EXCEPT !.pc = "t_chain"]]
          /\ UNCHANGED <<hist, clock>>
       \/ /\ thr[t].pc # "t_check"
          /\ thr' = [thr EXCEPT ![t] = Returned(t, FALSE)]
          /\ Record(t, FALSE)
    /\ UNCHANGED <<setVars, txRest, started, initialKeys>>

(* Entry *swap(int tableIndex, int idx, Entry *entry) applied to temp at
   its hash index in table tb.  st.mine is the slot that holds the Entry
   made by this add, <<>> while that Entry is temp. *)
TxSwap(st, tb) ==
    LET h == IF tb = 0 THEN hash1(Val(st.temp)) ELSE hash2(Val(st.temp)) IN
    IF h \notin DOMAIN st.table[tb]
    THEN [st EXCEPT !.stray = TRUE]
    ELSE [table |-> [st.table EXCEPT ![tb][h] = st.temp],
          temp  |-> st.table[tb][h],
          mine  |-> IF st.mine = <<>> THEN <<tb, h>>
                    ELSE IF st.mine = <<tb, h>> THEN <<>> ELSE st.mine,
          stray |-> FALSE,
          freed |-> st.freed \/ Dangling(st.temp)]

(* for (int i = 0; i < maxDisplacements && temp != nullptr; ++i) *)
RECURSIVE TxLoop(_, _)
TxLoop(st, i) ==
    IF st.stray \/ st.temp = Null \/ i >= maxDisplacements THEN st
    ELSE LET s1 == TxSwap(st, 0) IN
         IF s1.stray \/ s1.temp = Null THEN s1
         ELSE LET s2 == TxSwap(s1, 1) IN
              IF s2.stray \/ s2.temp = Null THEN s2
              ELSE TxLoop(s2, i + 1)

TxChain(tbl, value) ==
    TxLoop([table |-> tbl, temp |-> value, mine |-> <<>>, stray |-> FALSE,
            freed |-> FALSE], 0)

(* add: the second atomic block and, when it fails, delete leftover;
   delete entry;  The Entry made by this add is deleted while a slot
   still points to it, or twice when it is the leftover itself. *)
TxAddChain(t) ==
    LET st == TxChain(table, thr[t].key) IN
    /\ ~Crashed
    /\ thr[t].pc = "t_chain"
    /\ ~st.stray
    /\ IF st.temp = Null
       THEN /\ table' = st.table
            /\ ub' = (ub \/ st.freed)
            /\ thr' = [thr EXCEPT ![t] = Returned(t, TRUE)]
            /\ Record(t, TRUE)
       ELSE /\ UNCHANGED <<hist, clock>>
            /\ IF st.mine = <<>> \/ Dangling(st.temp)
               THEN \* an Entry is deleted twice
                    /\ ub' = TRUE
                    /\ \/ /\ thr' = [thr EXCEPT ![t] = [@ EXCEPT !.pc = "crashed"]]
                          /\ table' = st.table
                       \/ /\ thr' = [thr EXCEPT ![t] = [@ EXCEPT !.pc = "x_cas"]]
                          /\ IF st.mine = <<>> THEN table' = st.table
                             ELSE \E g \in FreedValues :
                                     table' = [st.table EXCEPT ![st.mine[1]][st.mine[2]] = Tag(g)]
               ELSE /\ ub' = (ub \/ st.freed)
                    /\ thr' = [thr EXCEPT ![t] = [@ EXCEPT !.pc = "x_cas"]]
                    /\ \E g \in FreedValues :
                          table' = [st.table EXCEPT ![st.mine[1]][st.mine[2]] = Tag(g)]
    /\ UNCHANGED <<capacity, maxDisplacements, resizing, salt1, salt2, txRest,
                   started, initialKeys>>

(* the displacement loop of add indexes a table beyond its end: the process
   dies, or the store lands outside the table and add reports success *)
TxStrayChain(t) ==
    LET st == TxChain(table, thr[t].key) IN
    /\ ~Crashed
    /\ thr[t].pc = "t_chain"
    /\ st.stray
    /\ ub' = TRUE
    /\ table' = st.table
    /\ \/ /\ thr' = [thr EXCEPT ![t] = [@ EXCEPT !.pc = "crashed"]]
          /\ UNCHANGED <<hist, clock>>
       \/ /\ thr' = [thr EXCEPT ![t] = Returned(t, TRUE)]
          /\ Record(t, TRUE)
    /\ UNCHANGED <<capacity, maxDisplacements, resizing, salt1, salt2, txRest,
                   started, initialKeys>>

----------------------------------------------------------------------------
(* void resize() of the transactional set; no step of it is in a
   transaction *)

(* resize with a plain test of resizing in place of the compare-and-set:
   the flag is read and never stored *)
TxResizeEnterPlainTest(t) ==
    /\ ~Crashed
    /\ thr[t].pc = "x_cas"
    /\ IF resizing
       THEN /\ thr' = [thr EXCEPT ![t] = [@ EXCEPT !.pc = "t_check"]]
            /\ UNCHANGED <<capacity, maxDisplacements>>
       ELSE /\ capacity < MaxCapacity
            /\ capacity' = capacity * 2
            /\ maxDisplacements' = maxDisplacements * 2
            /\ thr' = [thr EXCEPT ![t] = [@ EXCEPT !.pc = "x_extract",
                                                   !.oldCapacity = capacity]]
    /\ UNCHANGED <<resizing, salt1, salt2, table, txRest, started, initialKeys,
                   hist, clock, ub>>

(* compare_exchange_strong on resizing; the loser returns and add calls
   add(valueCopy); the winner doubles capacity and maxDisplacements *)
TxResizeEnter(t) ==
    /\ ~Crashed
    /\ thr[t].pc = "x_cas"
    /\ IF resizing
       THEN /\ thr' = [thr EXCEPT ![t] = [@ EXCEPT !.pc = "t_check"]]
            /\ UNCHANGED <<capacity, maxDisplacements, resizing>>
       ELSE /\ capacity < MaxCapacity
            /\ resizing' = TRUE
            /\ capacity' = capacity * 2
            /\ maxDisplacements' = maxDisplacements * 2
            /\ thr' = [thr EXCEPT ![t] = [@ EXCEPT !.pc = "x_extract",
                                                   !.oldCapacity = capacity]]
    /\ UNCHANGED <<salt1, salt2, table, txRest, started, initialKeys, hist, clock, ub>>

(* the values of the occupied slots from position p on, in scan order *)
RECURSIVE TxValues(_, _)
TxValues(p, oldCap) ==
    IF p >= 2 * oldCap THEN <<>>
    ELSE LET c == table[p \div oldCap][p % oldCap] IN
         IF c = Null THEN TxValues(p + 1, oldCap)
         ELSE <<Val(c)>> \o TxValues(p + 1, oldCap)

HasDangling == \E s \in (0..1) \X DOMAIN table[0] : Dangling(table[s[1]][s[2]])

(* allValues.push_back(table[i][j]->value); delete table[i][j];
   table[i][j] = nullptr; for every occupied slot *)
TxResizeExtract(t) ==
    /\ ~Crashed
    /\ thr[t].pc = "x_extract"
    /\ ub' = (ub \/ HasDangling)
    /\ table' = EmptyTable(thr[t].oldCapacity)
    /\ \/ thr' = [thr EXCEPT ![t] = [@ EXCEPT !.pc = "x_alloc",
                                              !.allValues = TxValues(0, thr[t].oldCapacity)]]
       \/ /\ HasDangling
          /\ thr' = [thr EXCEPT ![t] = [@ EXCEPT !.pc = "crashed"]]
    /\ UNCHANGED <<capacity, maxDisplacements, resizing, salt1, salt2, txRest,
                   started, initialKeys, hist, clock>>

(* table = std::vector<...>(2, std::vector<Entry *>(capacity, nullptr));
   salt1 = std::rand(); salt2 = std::rand(); *)
TxResizeAlloc(t) ==
    /\ ~Crashed
    /\ thr[t].pc = "x_alloc"
    /\ table' = EmptyTable(capacity)
    /\ \E r1 \in ConcSalts, r2 \in ConcSalts :
          /\ salt1' = r1
          /\ salt2' = r2
    /\ thr' = [thr EXCEPT ![t] = [@ EXCEPT !.pc = "x_readd", !.pos = 1]]
    /\ UNCHANGED <<capacity, maxDisplacements, resizing, txRest, started, initialKeys,
                   hist, clock, ub>>

(* the re-add loop: one value of allValues; a value that is not placed
   is reported on std::cerr and its leftover is deleted *)
TxResizeReadd(t) ==
    /\ ~Crashed
    /\ thr[t].pc = "x_readd"
    /\ thr[t].pos <= Len(thr[t].allValues)
    /\ table' = TxChain(table, thr[t].allValues[thr[t].pos]).table
    /\ thr' = [thr EXCEPT ![t] = [@ EXCEPT !.pos = @ + 1]]
    /\ UNCHANGED <<capacity, maxDisplacements, resizing, salt1, salt2, txRest,
                   started, initialKeys, hist, clock, ub>>

(* resizing.store(false); return add(valueCopy); *)
TxResizeEnd(t) ==
    /\ ~Crashed
    /\ thr[t].pc = "x_readd"
    /\ thr[t].pos > Len(thr[t].allValues)
    /\ resizing' = FALSE
    /\ thr' = [thr EXCEPT ![t] = [@ EXCEPT !.pc = "t_check", !.allValues = <<>>,
                                           !.pos = 0, !.oldCapacity = 0]]
    /\ UNCHANGED <<capacity, maxDisplacements, salt1, salt2, table, txRest,
                   started, initialKeys, hist, clock, ub>>

----------------------------------------------------------------------------

NextTx ==
    \/ ConcPopulate
    \/ TxPopulateLoop
    \/ \E t \in Workers, k \in ConcKeys : TxCall(t, "contains", k)
    \/ \E t \in Workers, k \in ConcKeys : TxCall(t, "add", k)
    \/ \E t \in Workers, k \in ConcKeys : TxCall(t, "remove", k)
    \/ \E t \in Threads : TxContains(t)
    \/ \E t \in Threads : TxRemove(t)
    \/ \E t \in Threads : TxAddCheck(t)
    \/ \E t \in Threads : TxStrayLookup(t)
    \/ \E t \in Threads : TxAddChain(t)
    \/ \E t \in Threads : TxStrayChain(t)
    \/ \E t \in Threads : TxResizeEnter(t)
    \/ \E t \in Threads : TxResizeExtract(t)
    \/ \E t \in Threads : TxResizeAlloc(t)
    \/ \E t \in Threads : TxResizeReadd(t)
    \/ \E t \in Threads : TxResizeEnd(t)

SpecTx == InitTx /\ [][NextTx]_vars

----------------------------------------------------------------------------
(* SpecTxPairs : the transactional set with workers on pairwise disjoint
   keys.  A worker picks a key that is absent when the workers start and
   that no other worker uses, and calls add(k); remove(k); MaxPairs times. *)

MaxPairs == 1

WorkerKeys == {2^b : b \in 0..(ConcKeyBit + 1)}

PairKeys(t) == WorkerKeys \ (initialKeys \cup {thr[u].key : u \in Workers \ {t}})

TxPairCall(t) ==
    /\ thr[t].ops < 2 * MaxPairs
    /\ \E k \in PairKeys(t) :
          /\ thr[t].ops > 0 => k = thr[t].key
          /\ TxInvoke(t, IF thr[t].ops % 2 = 0 THEN "add" ELSE "remove", k)

NextTxPairs ==
    \/ ConcPopulate
    \/ TxPopulateLoop
    \/ \E t \in Workers : TxPairCall(t)
    \/ \E t \in Threads : TxRemove(t)
    \/ \E t \in Threads : TxAddCheck(t)
    \/ \E t \in Threads : TxStrayLookup(t)
    \/ \E t \in Threads : TxAddChain(t)
    \/ \E t \in Threads : TxStrayChain(t)
    \/ \E t \in Threads : TxResizeEnter(t)
    \/ \E t \in Threads : TxResizeExtract(t)
    \/ \E t \in Threads : TxResizeAlloc(t)
    \/ \E t \in Threads : TxResizeReadd(t)
    \/ \E t \in Threads : TxResizeEnd(t)

SpecTxPairs == InitTx /\ [][NextTxPairs]_vars

----------------------------------------------------------------------------
(* SpecTxSingle : the transactional set used by the main thread alone,
   which populates it from a list over Keys *)

NextTxSingle ==
    \/ ConcPopulateOf(Lists)
    \/ TxPopulateLoop
    \/ TxAddCheck(Main)
    \/ TxAddChain(Main)
    \/ TxResizeEnter(Main)
    \/ TxResizeExtract(Main)
    \/ TxResizeAlloc(Main)
    \/ TxResizeReadd(Main)
    \/ TxResizeEnd(Main)

SpecTxSingle == InitTx /\ [][NextTxSingle]_vars

----------------------------------------------------------------------------
(* SpecProbe : the probing variant of the fine-grained set
   (src/unnamed/part_002).  table[i][h] is a list of values, locks[i][h] is
   a recursive mutex, written as its owner and its count, and the vector of
   locks keeps the length it got in the constructor.  salt0 of the source
   is the variable salt2 (hash2 uses it), is_resizing is the variable
   resizing.  The main thread populates the set and the workers then call
   add, remove and contains. *)

PROBE_SIZE == 2         \* 8 in the source
THRESHOLD == PROBE_SIZE \div 2
LIMIT == 2              \* 16 in the source
ProbeCapacity == 2      \* argument of the constructor
ProbeOps == 2           \* calls per worker
ProbeCalls == 3         \* calls of all the workers together
ProbeKeyBit == 3        \* the threads use the keys 2^1 .. 2^ProbeKeyBit
ProbeSaltBits == 1      \* time(NULL) is drawn from 0 .. 2^ProbeSaltBits - 1
ProbeListLen == 2       \* length of the list the main thread populates

ProbeKeys == {2^b : b \in 1..ProbeKeyBit}
ProbeSalts == 0..(2^ProbeSaltBits - 1)
ProbeLists == [1..ProbeListLen -> ProbeKeys]

EmptyBuckets(cap) == [i \in 0..1 |-> [h \in 0..(cap - 1) |-> <<>>]]

FreeMutex == [owner |-> Null, count |-> 0]

FreeMutexes(n) == [i \in 0..1 |-> [h \in 0..(n - 1) |-> FreeMutex]]

IdleProbe == [pc |-> "idle", op |-> "none", key |-> Null, ops |-> 0, ret |-> Null,
              val |-> Null, inner |-> FALSE, lv |-> Null, back |-> "idle", widx |-> 0,
              h0 |-> 0, h1 |-> 0, i |-> 0, hi |-> 0, round |-> 0, rval |-> Null, hj |-> 0,
              after |-> "none", afterOuter |-> "none", oldCapacity |-> 0, li |-> 0,
              old |-> <<>>, list |-> <<>>, idx |-> 0, added |-> 0]

InitProbe ==
    /\ capacity = ProbeCapacity
    /\ \E time \in ProbeSalts :
          /\ salt2 = time
          /\ salt1 = time
    /\ table = EmptyBuckets(ProbeCapacity)
    /\ locks = FreeMutexes(ProbeCapacity)
    /\ resizing = FALSE
    /\ thr = [t \in Threads |-> IdleProbe]
    /\ started = FALSE
    /\ ub = FALSE
    /\ maxDisplacements = 0
    /\ stack = <<>>
    /\ last = NoCall
    /\ netAdds = 0
    /\ nOps = 0
    /\ resizeLock = Null
    /\ lockGen = 0
    /\ initialKeys = {}
    /\ hist = <<>>
    /\ clock = 0

probeRest == <<maxDisplacements, stack, last, netAdds, nOps, resizeLock, lockGen,
               initialKeys, hist, clock>>

NumLocks == Cardinality(DOMAIN locks[0])

(* hash1(val) % locks[0].size() and hash2(val) % locks[1].size() *)
LockIndex(tb, val) == (IF tb = 0 THEN hash1(val) ELSE hash2(val)) % NumLocks

Available(t, tb, h) == locks[tb][h].owner \in {Null, t}

Lock(lk, t, tb, h) == [lk EXCEPT ![tb][h] = [owner |-> t, count |-> @.count + 1]]

(* unlock by a thread that does not own the mutex leaves it as it is *)
Unlock(lk, t, tb, h) ==
    IF lk[tb][h].owner # t THEN lk
    ELSE IF lk[tb][h].count = 1 THEN [lk EXCEPT ![tb][h] = FreeMutex]
    ELSE [lk EXCEPT ![tb][h].count = @ - 1]

(* void release(const T &val) *)
Released(lk, t, val) == Unlock(Unlock(lk, t, 0, LockIndex(0, val)), t, 1, LockIndex(1, val))

NotOwner(lk, t, val) ==
    \/ lk[0][LockIndex(0, val)].owner # t
    \/ lk[1][LockIndex(1, val)].owner # t

In(bucket, val) == \E n \in 1..Len(bucket) : bucket[n] = val

(* std::find and erase: the first occurrence goes *)
Erase(bucket, val) ==
    LET n == CHOOSE m \in 1..Len(bucket) :
                 bucket[m] = val /\ \A l \in 1..(m - 1) : bucket[l] # val
    IN  SubSeq(bucket, 1, n - 1) \o SubSeq(bucket, n + 1, Len(bucket))

RECURSIVE Flatten(_)
Flatten(rows) == IF rows = <<>> THEN <<>> ELSE Head(rows) \o Flatten(Tail(rows))

(* the entries of old_table in the order the loops of resize visit them *)
Entries(tbl, cap) ==
    Flatten([n \in 1..(2 * cap) |-> tbl[(n - 1) \div cap][(n - 1) % cap]])

(* lock() on locks[1][hash2(val) % locks[1].size()]: the thread goes on
   at pc back, or waits for the mutex of the index it has computed *)
LockTableOne(lk, t, th, val, back) ==
    LET h == LockIndex(1, val) IN
    IF lk[1][h].owner \in {Null, t}
    THEN [locks |-> Lock(lk, t, 1, h), th |-> [th EXCEPT !.pc = back]]
    ELSE [locks |-> lk, th |-> [th EXCEPT !.pc = "wait1", !.widx = h, !.back = back]]

(* void acquire(const T &val), called by thread t, which is th *)
Acquiring(lk, t, th, val, back) ==
    LET h == LockIndex(0, val) IN
    IF lk[0][h].owner \in {Null, t}
    THEN LockTableOne(Lock(lk, t, 0, h), t, [th EXCEPT !.lv = val], val, back)
    ELSE [locks |-> lk,
          th |-> [th EXCEPT !.pc = "wait0", !.widx = h, !.lv = val, !.back = back]]

(* add(val) begins *)
EnterProbeAdd(lk, t, th, val) == Acquiring(lk, t, [th EXCEPT !.val = val], val, "a_in")

(* a call of a worker returns r; its locals are gone *)
ProbeReturns(th, r) == [IdleProbe EXCEPT !.ops = th.ops + 1, !.ret = r]

(* add returns r to the loop of resize, to populate or to the worker *)
ProbeAddReturns(th, r) ==
    IF th.inner THEN [th EXCEPT !.pc = "rz_readd", !.inner = FALSE]
    ELSE IF th.op = "populate"
         THEN [IdleProbe EXCEPT !.pc = "p_loop", !.op = "populate", !.list = th.list,
                                !.idx = th.idx + 1,
                                !.added = th.added + (IF r THEN 1 ELSE 0)]
         ELSE ProbeReturns(th, r)

(* resize() is called by add; after says what add does next *)
CallsResize(th, after) == [th EXCEPT !.pc = "rz_enter", !.after = after]

(* resize returns: add(val) is called again, or add returns true *)
ResizeReturns(lk, t, th, after) ==
    IF after = "retry"
    THEN EnterProbeAdd(lk, t, th, IF th.inner THEN th.val ELSE th.key)
    ELSE [locks |-> lk, th |-> ProbeAddReturns(th, TRUE)]

(* the locks and thread t are now as in r; a release that unlocked a
   mutex the thread does not own (bad) is undefined: the call has no
   effect, or the process dies *)
Goes(t, r, bad) ==
    /\ locks' = r.locks
    /\ IF bad
       THEN /\ ub' = TRUE
            /\ \/ thr' = [thr EXCEPT ![t] = r.th]
               \/ thr' = [thr EXCEPT ![t] = [@ EXCEPT !.pc = "crashed"]]
       ELSE /\ thr' = [thr EXCEPT ![t] = r.th]
            /\ UNCHANGED ub

Step(lk, th) == [locks |-> lk, th |-> th]

----------------------------------------------------------------------------
(* int populate(const std::vector<T> &list), by the main thread *)

ProbePopulate ==
    /\ ~started
    /\ thr[Main].pc = "idle"
    /\ \E list \in ProbeLists :
          thr' = [thr EXCEPT ![Main] = [@ EXCEPT !.op = "populate", !.list = list,
                                                 !.idx = 1, !.pc = "p_loop"]]
    /\ UNCHANGED <<capacity, salt1, salt2, table, locks, resizing, started, ub, probeRest>>

ProbePopulateLoop ==
    /\ ~Crashed
    /\ thr[Main].pc = "p_loop"
    /\ IF thr[Main].idx <= Len(thr[Main].list)
       THEN /\ Goes(Main, EnterProbeAdd(locks, Main,
                                         [thr[Main] EXCEPT !.key = thr[Main].list[thr[Main].idx]],
                                         thr[Main].list[thr[Main].idx]), FALSE)
            /\ UNCHANGED started
       ELSE /\ thr' = [thr EXCEPT ![Main] = [@ EXCEPT !.pc = "joining"]]
            /\ started' = TRUE
            /\ UNCHANGED <<locks, ub>>
    /\ UNCHANGED <<capacity, salt1, salt2, table, resizing, probeRest>>

(* a worker calls add, remove or contains *)
ProbeCall(t, op, k) ==
    /\ started
    /\ ~Crashed
    /\ thr[t].pc = "idle"
    /\ thr[t].ops < ProbeOps
    /\ nOps < ProbeCalls
    /\ nOps' = nOps + 1
    /\ Goes(t, Acquiring(locks, t,
                          [thr[t] EXCEPT !.op = op, !.key = k, !.val = k, !.ret = Null], k,
                          CASE op = "add"      -> "a_in"
                            [] op = "remove"   -> "d_body"
                            [] op = "contains" -> "c_body"), FALSE)
    /\ UNCHANGED <<capacity, salt1, salt2, table, resizing, started, maxDisplacements,
                   stack, last, netAdds, resizeLock, lockGen, initialKeys, hist, clock>>

----------------------------------------------------------------------------
(* lock() returns in acquire: the mutex the thread waited for is free.
   After the lock of table 0 the index of table 1 is computed. *)

ProbeWait(t) ==
    /\ ~Crashed
    /\ thr[t].pc \in {"wait0", "wait1"}
    /\ LET tb == IF thr[t].pc = "wait0" THEN 0 ELSE 1 IN
          /\ Available(t, tb, thr[t].widx)
          /\ IF tb = 0
             THEN Goes(t, LockTableOne(Lock(locks, t, 0, thr[t].widx), t, thr[t],
                                       thr[t].lv, thr[t].back), FALSE)
             ELSE Goes(t, Step(Lock(locks, t, 1, thr[t].widx),
                               [thr[t] EXCEPT !.pc = thr[t].back]), FALSE)
    /\ UNCHANGED <<capacity, salt1, salt2, table, resizing, started, probeRest>>

----------------------------------------------------------------------------
(* bool contains(const T &val) *)

ProbeContainsBody(t) ==
    /\ ~Crashed
    /\ thr[t].pc = "c_body"
    /\ LET val   == thr[t].key
           found == In(table[0][hash1(val)], val) \/ In(table[1][hash2(val)], val)
       IN  Goes(t, Step(Released(locks, t, val),
                        ProbeReturns(thr[t], found)),
                NotOwner(locks, t, val))
    /\ UNCHANGED <<capacity, salt1, salt2, table, resizing, started, probeRest>>

(* bool remove(const T &val) *)
ProbeRemoveBody(t) ==
    /\ ~Crashed
    /\ thr[t].pc = "d_body"
    /\ LET val == thr[t].key
           h0  == hash1(val)
           h1  == hash2(val)
           r   == In(table[0][h0], val) \/ In(table[1][h1], val)
       IN  /\ table' = IF In(table[0][h0], val)
                       THEN [table EXCEPT ![0][h0] = Erase(@, val)]
                       ELSE IF In(table[1][h1], val)
                            THEN [table EXCEPT ![1][h1] = Erase(@, val)]
                            ELSE table
           /\ Goes(t, Step(Released(locks, t, val),
                           ProbeReturns(thr[t], r)),
                   NotOwner(locks, t, val))
    /\ UNCHANGED <<capacity, salt1, salt2, resizing, started, probeRest>>

----------------------------------------------------------------------------
(* bool add(const T &val) *)

(* contains(val) answers and releases, then the value is placed and the
   locks are released: the table, the locks and the thread afterwards, and
   whether a release unlocked a mutex the thread does not own *)
AddBody(lk, t, th) ==
    LET val   == th.val
        found == In(table[0][hash1(val)], val) \/ In(table[1][hash2(val)], val)
        lk1   == Released(lk, t, val)
        lk2   == Released(lk1, t, val)
        bad   == NotOwner(lk, t, val) \/ NotOwner(lk1, t, val)
        n0    == Len(table[0][th.h0])
        n1    == Len(table[1][th.h1])
        in0   == [table EXCEPT ![0][th.h0] = Append(@, val)]
        in1   == [table EXCEPT ![1][th.h1] = Append(@, val)]
    IN  IF found
        THEN [table |-> table, locks |-> lk2, th |-> ProbeAddReturns(th, FALSE), bad |-> bad]
        ELSE IF n0 < THRESHOLD
        THEN [table |-> in0, locks |-> lk2, th |-> ProbeAddReturns(th, TRUE), bad |-> bad]
        ELSE IF n1 < THRESHOLD
        THEN [table |-> in1, locks |-> lk2, th |-> ProbeAddReturns(th, TRUE), bad |-> bad]
        ELSE IF n0 < PROBE_SIZE
        THEN [table |-> in0, locks |-> lk2, bad |-> bad,
              th |-> [th EXCEPT !.pc = "rl_front", !.i = 0, !.hi = th.h0, !.round = 0]]
        ELSE IF n1 < PROBE_SIZE
        THEN [table |-> in1, locks |-> lk2, bad |-> bad,
              th |-> [th EXCEPT !.pc = "rl_front", !.i = 1, !.hi = th.h1, !.round = 0]]
        ELSE [table |-> table, locks |-> lk2, th |-> CallsResize(th, "retry"), bad |-> bad]

(* int h0 = hash1(val); int h1 = hash2(val); then contains(val) is called
   and acquires the locks of val again *)
ProbeAddHashes(t) ==
    /\ ~Crashed
    /\ thr[t].pc = "a_in"
    /\ Goes(t, Acquiring(locks, t,
                          [thr[t] EXCEPT !.h0 = hash1(thr[t].val), !.h1 = hash2(thr[t].val)],
                          thr[t].val, "a_body"), FALSE)
    /\ UNCHANGED <<capacity, salt1, salt2, table, resizing, started, probeRest>>

ProbeAddBody(t) ==
    /\ ~Crashed
    /\ thr[t].pc = "a_body"
    /\ table' = AddBody(locks, t, thr[t]).table
    /\ Goes(t, AddBody(locks, t, thr[t]), AddBody(locks, t, thr[t]).bad)
    /\ UNCHANGED <<capacity, salt1, salt2, resizing, started, probeRest>>

----------------------------------------------------------------------------
(* bool relocate(int i, int hi) *)

(* T val = table[i][hi].front(), read without a lock, and the index of
   the other bucket; front() of an empty list is undefined: any value, or
   the process dies.  After LIMIT rounds relocate returns false and add
   calls resize. *)
ProbeRelocateFront(t) ==
    /\ ~Crashed
    /\ thr[t].pc = "rl_front"
    /\ LET th == thr[t]
           hj(val) == IF th.i = 0 THEN hash1(val) ELSE hash2(val)
           go(val) == Acquiring(locks, t, [th EXCEPT !.rval = val, !.hj = hj(val)],
                                val, "rl_body")
       IN  IF th.round >= LIMIT
           THEN Goes(t, Step(locks, CallsResize(th, "done")), FALSE)
           ELSE IF table[th.i][th.hi] # <<>>
           THEN Goes(t, go(Head(table[th.i][th.hi])), FALSE)
           ELSE /\ ub' = TRUE
                /\ \/ \E val \in ProbeKeys :
                         /\ locks' = go(val).locks
                         /\ thr' = [thr EXCEPT ![t] = go(val).th]
                   \/ /\ thr' = [thr EXCEPT ![t] = [@ EXCEPT !.pc = "crashed"]]
                      /\ UNCHANGED locks
    /\ UNCHANGED <<capacity, salt1, salt2, table, resizing, started, probeRest>>

(* one round that copies val to the other probe set and does not erase
   it from its own *)
ProbeRelocateBodyNoErase(t) ==
    /\ ~Crashed
    /\ thr[t].pc = "rl_body"
    /\ LET th  == thr[t]
           val == th.rval
           i   == th.i
           j   == 1 - th.i
           lk  == Released(locks, t, val)
           bad == NotOwner(locks, t, val)
       IN  IF In(table[i][th.hi], val)
           THEN IF Len(table[j][th.hj]) < THRESHOLD
                THEN /\ table' = [table EXCEPT ![j][th.hj] = Append(@, val)]
                     /\ Goes(t, Step(lk, ProbeAddReturns(th, TRUE)), bad)
                ELSE IF Len(table[j][th.hj]) < PROBE_SIZE
                THEN /\ table' = [table EXCEPT ![j][th.hj] = Append(@, val)]
                     /\ Goes(t, Step(lk, [th EXCEPT !.pc = "rl_front", !.i = j, !.hi = th.hj,
                                                    !.round = @ + 1]), bad)
                ELSE /\ UNCHANGED table
                     /\ Goes(t, Step(lk, CallsResize(th, "done")), bad)
           ELSE IF Len(table[i][th.hi]) >= THRESHOLD
           THEN /\ Goes(t, Step(lk, [th EXCEPT !.pc = "rl_front", !.round = @ + 1]), bad)
                /\ UNCHANGED table
           ELSE /\ Goes(t, Step(lk, ProbeAddReturns(th, TRUE)), bad)
                /\ UNCHANGED table
    /\ UNCHANGED <<capacity, salt1, salt2, resizing, started, probeRest>>

(* the body of one round, under the locks of val *)
ProbeRelocateBody(t) ==
    /\ ~Crashed
    /\ thr[t].pc = "rl_body"
    /\ LET th  == thr[t]
           val == th.rval
           i   == th.i
           j   == 1 - th.i
           lk  == Released(locks, t, val)
           bad == NotOwner(locks, t, val)
       IN  IF In(table[i][th.hi], val)
           THEN LET erased == [table EXCEPT ![i][th.hi] = Erase(@, val)] IN
                IF Len(table[j][th.hj]) < THRESHOLD
                THEN /\ table' = [erased EXCEPT ![j][th.hj] = Append(@, val)]
                     /\ Goes(t, Step(lk, ProbeAddReturns(th, TRUE)), bad)
                ELSE IF Len(table[j][th.hj]) < PROBE_SIZE
                THEN /\ table' = [erased EXCEPT ![j][th.hj] = Append(@, val)]
                     /\ Goes(t, Step(lk, [th EXCEPT !.pc = "rl_front", !.i = j, !.hi = th.hj,
                                                    !.round = @ + 1]), bad)
                ELSE /\ table' = [erased EXCEPT ![i][th.hi] = Append(@, val)]
                     /\ Goes(t, Step(lk, CallsResize(th, "done")), bad)
           ELSE IF Len(table[i][th.hi]) >= THRESHOLD
           THEN /\ Goes(t, Step(lk, [th EXCEPT !.pc = "rl_front", !.round = @ + 1]), bad)
                /\ UNCHANGED table
           ELSE /\ Goes(t, Step(lk, ProbeAddReturns(th, TRUE)), bad)
                /\ UNCHANGED table
    /\ UNCHANGED <<capacity, salt1, salt2, resizing, started, probeRest>>

----------------------------------------------------------------------------
(* void resize() *)

(* if (is_resizing) return; int oldCapacity = capacity; *)
ProbeResizeEnter(t) ==
    /\ ~Crashed
    /\ thr[t].pc = "rz_enter"
    /\ IF resizing
       THEN Goes(t, ResizeReturns(locks, t, thr[t], thr[t].after), FALSE)
       ELSE Goes(t, Step(locks, [thr[t] EXCEPT !.pc = "rz_lock", !.oldCapacity = capacity,
                                               !.li = 0]), FALSE)
    /\ UNCHANGED <<capacity, salt1, salt2, table, resizing, started, probeRest>>

(* for (auto &lock : locks[0]) lock->lock(); *)
ProbeResizeLock(t) ==
    /\ ~Crashed
    /\ thr[t].pc = "rz_lock"
    /\ thr[t].li < NumLocks
    /\ Available(t, 0, thr[t].li)
    /\ locks' = Lock(locks, t, 0, thr[t].li)
    /\ thr' = [thr EXCEPT ![t].li = @ + 1]
    /\ UNCHANGED <<capacity, salt1, salt2, table, resizing, started, ub, probeRest>>

(* if (capacity != oldCapacity) return;  otherwise the flag is set, the
   salts are drawn, capacity is doubled and the table is rebuilt empty *)
ProbeResizeStart(t) ==
    /\ ~Crashed
    /\ thr[t].pc = "rz_lock"
    /\ thr[t].li = NumLocks
    /\ IF capacity # thr[t].oldCapacity
       THEN /\ Goes(t, ResizeReturns(locks, t, thr[t], thr[t].after), FALSE)
            /\ UNCHANGED <<capacity, salt1, salt2, table, resizing>>
       ELSE /\ resizing' = TRUE
            /\ \E time \in ProbeSalts :
                  /\ salt2' = time
                  /\ salt1' = time
            /\ capacity' = capacity * 2
            /\ table' = EmptyBuckets(capacity * 2)
            /\ thr' = [thr EXCEPT ![t] = [@ EXCEPT !.pc = "rz_readd",
                                                   !.afterOuter = thr[t].after,
                                                   !.old = Entries(table, capacity)]]
            /\ UNCHANGED <<locks, ub>>
    /\ UNCHANGED <<started, probeRest>>

(* add(entry) for the next entry of old_table; after the last one the
   locks of table 0 are unlocked and resize returns *)
ProbeResizeReadd(t) ==
    /\ ~Crashed
    /\ thr[t].pc = "rz_readd"
    /\ IF thr[t].old # <<>>
       THEN Goes(t, EnterProbeAdd(locks, t,
                                  [thr[t] EXCEPT !.inner = TRUE, !.old = Tail(@)],
                                  Head(thr[t].old)), FALSE)
       ELSE Goes(t, ResizeReturns([locks EXCEPT ![0] = [h \in DOMAIN locks[0] |->
                                                          Unlock(locks, t, 0, h)[0][h]]],
                                  t, thr[t], thr[t].afterOuter), FALSE)
    /\ UNCHANGED <<capacity, salt1, salt2, table, resizing, started, probeRest>>

----------------------------------------------------------------------------

NextProbe ==
    \/ ProbePopulate
    \/ ProbePopulateLoop
    \/ \E t \in Workers, k \in ProbeKeys : ProbeCall(t, "add", k)
    \/ \E t \in Workers, k \in ProbeKeys : ProbeCall(t, "remove", k)
    \/ \E t \in Workers, k \in ProbeKeys : ProbeCall(t, "contains", k)
    \/ \E t \in Threads : ProbeWait(t)
    \/ \E t \in Threads : ProbeContainsBody(t)
    \/ \E t \in Threads : ProbeRemoveBody(t)
    \/ \E t \in Threads : ProbeAddHashes(t)
    \/ \E t \in Threads : ProbeAddBody(t)
    \/ \E t \in Threads : ProbeRelocateFront(t)
    \/ \E t \in Threads : ProbeRelocateBody(t)
    \/ \E t \in Threads : ProbeResizeEnter(t)
    \/ \E t \in Threads : ProbeResizeLock(t)
    \/ \E t \in Threads : ProbeResizeStart(t)
    \/ \E t \in Threads : ProbeResizeReadd(t)

SpecProbe == InitProbe /\ [][NextProbe]_vars

----------------------------------------------------------------------------
(* SpecSerial2 : SequentialCuckooSet (src/cuckoo-serial2.h), one caller.

   insert and resize call each other, so they are operators on the record
   of the set's fields; one call of insert by populate is one step.  time
   is what std::time(nullptr) returns to the resizes of that call.  A call
   that would take capacity beyond MaxCapacity is not followed (over). *)

S2Set == [capacity |-> capacity, maxDisplacements |-> maxDisplacements,
          salt1 |-> salt1, salt2 |-> salt2, table |-> table, over |-> FALSE]

S2Hash1(s, key) == hash(key, s.salt1, s.capacity)

S2Hash2(s, key) == hash(key, s.salt2, s.capacity)

(* bool contains(const T& val) const *)
S2Contains(s, val) ==
    \/ s.table[0][S2Hash1(s, val)] = val
    \/ s.table[1][S2Hash2(s, val)] = val

RECURSIVE S2Insert(_, _, _)
RECURSIVE S2Loop(_, _, _, _, _)
RECURSIVE S2Resize(_, _)
RECURSIVE S2Reinsert(_, _, _, _, _)

(* bool insert(const T& val): the set afterwards and the value returned *)
S2Insert(s, val, time) ==
    IF s.over \/ S2Contains(s, val)
    THEN [set |-> s, ret |-> FALSE]
    ELSE S2Loop(s, val, val, 0, time)

(* for (int i = 0; i < maxDisplacements; ++i) and, after it,
   delete displaced; resize(); return insert(val); *)
S2Loop(s, val, displaced, i, time) ==
    IF i >= s.maxDisplacements
    THEN S2Insert(S2Resize(s, time), val, time)
    ELSE LET h1 == S2Hash1(s, displaced) IN
         IF s.table[0][h1] = Null
         THEN [set |-> [s EXCEPT !.table[0][h1] = displaced], ret |-> TRUE]
         ELSE LET d1 == s.table[0][h1]
                  s1 == [s EXCEPT !.table[0][h1] = displaced]
                  h2 == S2Hash2(s, d1)
              IN  IF s.table[1][h2] = Null
                  THEN [set |-> [s1 EXCEPT !.table[1][h2] = d1], ret |-> TRUE]
                  ELSE S2Loop([s1 EXCEPT !.table[1][h2] = d1], val,
                              s.table[1][h2], i + 1, time)

(* void resize() *)
S2Resize(s, time) ==
    IF s.capacity >= MaxCapacity
    THEN [s EXCEPT !.over = TRUE]
    ELSE S2Reinsert([s EXCEPT !.capacity = 2 * s.capacity,
                              !.maxDisplacements = 2 * s.maxDisplacements,
                              !.table = EmptyTable(2 * s.capacity),
                              !.salt1 = time,
                              !.salt2 = Xor(time, GoldenLow) % (2^SaltBits)],
                    s.table, s.capacity, 0, time)

(* the loops of resize over oldTable from position p on: the entry of
   every occupied bucket is inserted by value and then deleted *)
S2Reinsert(s, oldTable, oldCapacity, p, time) ==
    IF p >= 2 * oldCapacity THEN s
    ELSE LET e == oldTable[p \div oldCapacity][p % oldCapacity] IN
         IF e = Null
         THEN S2Reinsert(s, oldTable, oldCapacity, p + 1, time)
         ELSE S2Reinsert(S2Insert(s, e, time).set, oldTable, oldCapacity, p + 1, time)

(* bool populate(const std::vector<T>& elements) is called *)
S2Populate ==
    /\ Idle
    /\ last.op = "none"
    /\ \E list \in Lists :
          stack' = <<[fn |-> "populate", list |-> list, idx |-> 1]>>
    /\ UNCHANGED <<setVars, last, netAdds, nOps, concVars>>

(* one round of the loop of populate: if (!insert(el)) return false;
   after the last element, return true *)
S2PopulateLoop ==
    /\ ~Idle
    /\ Top.fn = "populate"
    /\ IF Top.idx > Len(Top.list)
       THEN /\ stack' = <<>>
            /\ last' = [NoCall EXCEPT !.op = "populate", !.list = Top.list, !.ret = TRUE]
            /\ UNCHANGED <<capacity, maxDisplacements, salt1, salt2, table>>
       ELSE \E time \in Salts :
               LET r == S2Insert(S2Set, Top.list[Top.idx], time) IN
               /\ ~r.set.over
               /\ capacity' = r.set.capacity
               /\ maxDisplacements' = r.set.maxDisplacements
               /\ salt1' = r.set.salt1
               /\ salt2' = r.set.salt2
               /\ table' = r.set.table
               /\ IF r.ret
                  THEN /\ stack' = <<[Top EXCEPT !.idx = @ + 1]>>
                       /\ UNCHANGED last
                  ELSE /\ stack' = <<>>
                       /\ last' = [NoCall EXCEPT !.op = "populate", !.list = Top.list,
                                                 !.ret = FALSE]
    /\ UNCHANGED <<resizing, netAdds, nOps, concVars>>

NextSerial2 ==
    \/ S2Populate
    \/ S2PopulateLoop

SpecSerial2 == Init /\ [][NextSerial2]_vars

----------------------------------------------------------------------------
(* Properties of the sequential backend *)

Range(f) == {f[x] : x \in DOMAIN f}

Distinct(list) == Cardinality(Range(list)) = Len(list)

(* No displacement chain is in flight: every add, remove or resize begun so
   far has completed or has not yet touched a slot. *)
Quiescent == \A n \in 1..Len(stack) : stack[n].fn = "add" => stack[n].pc = "check"

\* C1: add(k) returns true if and only if k was absent immediately before
\* the call, and k is present when the call returns.
C1_AddContract ==
    (Idle /\ last.op = "add") =>
        /\ last.ret <=> ~last.preHas
        /\ contains(last.key)

\* C2: remove(k) returns true if and only if k was present immediately
\* before the call, and contains(k) is false after remove(k) returns.
C2_RemoveContract ==
    (Idle /\ last.op = "remove") =>
        /\ last.ret <=> last.preHas
        /\ ~contains(last.key)

C2_Witness ==
    /\ Idle
    /\ last.op = "remove"
    /\ last.ret
    /\ capacity > InitialCapacity
    /\ size > 0

\* C3: after every completed add or remove, contains(k) is true if and only
\* if some slot of table 0 or table 1 holds k, for every key k.
C3_ContainsAgreement ==
    (Idle /\ last.op \in {"add", "remove"}) =>
        \A k \in Keys : contains(k) <=> k \in SlotKeys

C3_Witness ==
    /\ Idle
    /\ last.op = "add"
    /\ capacity > InitialCapacity
    /\ \E j \in 0..(capacity - 1) : table[1][j] # Null
    /\ \E j \in 0..(capacity - 1) : table[0][j] # Null

\* C4: size() equals the number of add calls that returned true minus the
\* number of remove calls that returned true.
C4_SizeLaw == Idle => size = netAdds

\* C5: after every completed add, remove or resize no key is stored in
\* more than one slot.
C5_Uniqueness ==
    Quiescent =>
        \A s \in Slots, u \in Slots :
            (s # u /\ table[s[1]][s[2]] # Null) => table[s[1]][s[2]] # table[u[1]][u[2]]

C5_Witness ==
    /\ Idle
    /\ last.op = "add"
    /\ last.preHas
    /\ capacity > InitialCapacity
    /\ size >= 3

\* C6: add(k); add(k) on an absent key returns true then false and size()
\* grows by exactly 1; remove(k); remove(k) has the second call return false
\* and size() shrinks by at most 1.
C6_Idempotence ==
    (Idle /\ last.again) =>
        /\ (last.op = "add" /\ ~last.preHas1) =>
              /\ last.ret1
              /\ ~last.ret
              /\ size = last.preSize1 + 1
        /\ last.op = "remove" =>
              /\ ~last.ret
              /\ size >= last.preSize1 - 1

\* C7: adding n pairwise distinct keys to a fresh set whose initial capacity
\* is smaller than n makes every add return true; afterwards size() is n
\* and contains is true for each of the n keys.
C7_GrowthKeepsKeys ==
    (Idle /\ last.op = "populate" /\ last.fresh /\ Distinct(last.list)
          /\ Len(last.list) > InitialCapacity) =>
        /\ last.count = Len(last.list)
        /\ size = Len(last.list)
        /\ \A k \in Range(last.list) : contains(k)

\* C8: populate(list) on an empty set returns the number of distinct values
\* in list, and afterwards size() equals that number.
C8_PopulateCount ==
    (Idle /\ last.op = "populate" /\ last.preSize = 0) =>
        /\ last.count = Cardinality(Range(last.list))
        /\ size = Cardinality(Range(last.list))

\* C19: after every completed operation every occupied slot (0, i) holds a
\* key k with i = hash1(k) and every occupied slot (1, i) a key k with
\* i = hash2(k), under the current salts and capacity.
C19_Placement ==
    Idle => \A s \in Slots :
               table[s[1]][s[2]] # Null =>
                   s[2] = IF s[1] = 0 THEN hash1(table[s[1]][s[2]])
                                      ELSE hash2(table[s[1]][s[2]])

(* both tables hold a key after a resize that drew two different salts *)
C19_Witness ==
    /\ Idle
    /\ capacity > InitialCapacity
    /\ salt1 # salt2
    /\ \E i \in 0..(capacity - 1) : table[0][i] # Null
    /\ \E i \in 0..(capacity - 1) : table[1][i] # Null

\* C20: add(k) never loses another key: every key j different from k that
\* is present before add(k) is still present when add(k) has returned
\* (sequential backend).
C20_AddKeepsOthers ==
    (Idle /\ last.op = "add") =>
        \A j \in last.preKeys \ {last.key} : contains(j)

(* the public call op is made in this step *)
Calls(op) == Idle /\ nOps' = nOps + 1 /\ last'.op = op

ChangedSlots == {s \in Slots : table'[s[1]][s[2]] # table[s[1]][s[2]]}

\* C21: contains(k) changes no slot, salt, capacity or maxDisplacements;
\* remove(k) changes at most the one slot that held k and leaves capacity,
\* maxDisplacements, the salts and the membership of every other key as
\* they were.
C21_FrameOfContainsRemove ==
    [][/\ Calls("contains") => UNCHANGED <<capacity, maxDisplacements, salt1, salt2, table>>
       /\ Calls("remove") =>
             /\ UNCHANGED <<capacity, maxDisplacements, salt1, salt2>>
             /\ Cardinality(ChangedSlots) <= 1
             /\ \A s \in ChangedSlots : /\ table[s[1]][s[2]] = last'.key
                                         /\ table'[s[1]][s[2]] = Null
             /\ \A j \in Keys \ {last'.key} : contains(j)' <=> contains(j)]_vars

(* remove(k) has returned true and left two other keys in the set *)
C21_Witness ==
    /\ Idle
    /\ last.op = "remove"
    /\ last.ret
    /\ size >= 2

(* the add on top of the stack has used up its maxDisplacements rounds and
   goes on to delete temp; resize(); return add(value); *)
ChainExhausted ==
    /\ ~Idle
    /\ Top.fn = "add"
    /\ Top.pc = "loop"
    /\ Top.i >= maxDisplacements
    /\ stack' # stack

\* C22: whenever the chain of an add is exhausted, capacity is doubled
\* before that add is retried, also when the add is one that resize
\* executes while it rehashes.
C22_ExhaustionDoubles == [][ChainExhausted => capacity' = 2 * capacity]_vars

(* the top add is exhausted outside resize and the capacity bound of the
   model is reached *)
AtWideMaxCapacity ==
    /\ ~Idle
    /\ Top.fn = "add"
    /\ Top.pc = "loop"
    /\ Top.i >= maxDisplacements
    /\ ~resizing
    /\ capacity >= WideMaxCapacity

\* C23: every add returns after finitely many displacement steps, resizes
\* and retries, also an add that resize executes while the resizing flag
\* is set: a call in progress leads to the call having returned.
C23_AddTerminates == ~Idle ~> (Idle \/ AtWideMaxCapacity)

(* a resize frame lies below another resize frame *)
NestedResize ==
    \E m, n \in 1..Len(stack) : m < n /\ stack[m].fn = "resize" /\ stack[n].fn = "resize"

\* C24: resize never runs nested inside another resize; a call to resize
\* made while the resizing flag is true changes neither capacity,
\* maxDisplacements, the salts nor a table; and the flag is false whenever a
\* public operation has returned.
C24_NoNestedResize ==
    [][/\ ~NestedResize'
       /\ (ChainExhausted /\ resizing) =>
              UNCHANGED <<capacity, maxDisplacements, salt1, salt2, table>>
       /\ Idle' => ~resizing']_vars

(* an add executed by resize has exhausted its chain and called resize
   again (only then does an add or a populate leave fewer keys than it
   found), and the public call has returned *)
C24_Witness ==
    /\ Idle
    /\ ~resizing
    /\ last.op \in {"add", "populate"}
    /\ capacity > InitialCapacity
    /\ size < last.preSize

(* the body of resize starts / the loop of resize ends *)
ResizeBegins == Len(stack') > Len(stack) /\ stack'[Len(stack')].fn = "resize"
ResizeEnds == ~Idle /\ Top.fn = "resize" /\ stack' = Below

TablesOf(cap) == \A t \in 0..1 : DOMAIN table[t] = 0..(cap - 1)

\* C25: each completed resize multiplies capacity by exactly 2 and
\* maxDisplacements by exactly 2 and allocates two tables of the new
\* capacity; capacity never decreases, and neither field changes elsewhere.
C25_ResizeDoubles ==
    [][/\ capacity' >= capacity
       /\ ResizeBegins => /\ capacity' = 2 * capacity
                          /\ maxDisplacements' = 2 * maxDisplacements
                          /\ \A t \in 0..1 : DOMAIN table'[t] = 0..(capacity' - 1)
       /\ ~ResizeBegins => UNCHANGED <<capacity, maxDisplacements>>
       /\ ResizeEnds => /\ capacity = 2 * Top.oldCap
                        /\ TablesOf(capacity)]_vars

(* a public call that resized has returned *)
C25_Witness ==
    /\ Idle
    /\ last.op \in {"add", "populate"}
    /\ last.done
    /\ capacity = 2 * InitialCapacity
    /\ maxDisplacements = 2 * (InitialCapacity \div 2)
    /\ TablesOf(2 * InitialCapacity)

\* C26: for every set constructed with an initial capacity of at least 1,
\* capacity and maxDisplacements are strictly positive in every reachable
\* state.
C26_PositiveGeometry == capacity > 0 /\ maxDisplacements > 0

(* add has found its value absent, and slot (0, hash1(value)) is empty *)
FirstTry ==
    /\ ~Idle
    /\ Top.fn = "add"
    /\ Top.pc = "loop"
    /\ Top.i = 0
    /\ Top.temp = Top.value
    /\ table[0][hash1(Top.value)] = Null
    /\ stack' # stack

\* C28: table 0 is tried first: add(k) for an absent key k whose slot
\* (0, hash1(k)) is empty stores k in that slot, returns true to its caller
\* and changes no other slot, whatever slot (1, hash2(k)) holds.
C28_TableZeroFirst ==
    [][FirstTry =>
          /\ table' = [table EXCEPT ![0][hash1(Top.value)] = Top.value]
          /\ Len(stack') = Len(stack) - 1
          /\ Below = <<>> => last'.done /\ last'.ret
          /\ (Below # <<>> /\ Below[Len(Below)].fn = "populate") =>
                 stack'[Len(stack')].added = Below[Len(Below)].added + 1]_vars

----------------------------------------------------------------------------
(* Properties of the fine-grained backend *)

WorkersDone == started /\ \A t \in Workers : thr[t].pc = "idle"

Members == {k \in ConcKeys : contains(k)}

(* what a sequential set S answers to the completed call e, and the set
   it leaves *)
SeqRet(S, e) ==
    CASE e.op = "add"      -> e.key \notin S
      [] e.op = "remove"   -> e.key \in S
      [] e.op = "contains" -> e.key \in S

SeqSet(S, e) ==
    CASE e.op = "add"      -> S \cup {e.key}
      [] e.op = "remove"   -> S \ {e.key}
      [] e.op = "contains" -> S

Orders == {f \in [1..Len(hist) -> 1..Len(hist)] :
              \A a, b \in 1..Len(hist) : a # b => f[a] # f[b]}

(* a call that returned before another was invoked is ordered before it *)
RealTime(f) ==
    \A a, b \in 1..Len(hist) :
        hist[f[a]].res < hist[f[b]].inv => a < b

RECURSIVE Replays(_, _, _)
Replays(S, f, n) ==
    IF n > Len(hist) THEN S = Members
    ELSE /\ SeqRet(S, hist[f[n]]) = hist[f[n]].ret
         /\ Replays(SeqSet(S, hist[f[n]]), f, n + 1)

\* C9: once the workers' calls of add, remove and contains have returned,
\* some total order of them that respects real time gives every call the
\* answer of a sequential set started from the populated keys, and ends in
\* the membership that contains reports.
C9_Linearizable ==
    WorkersDone => \E f \in Orders : RealTime(f) /\ Replays(initialKeys, f, 1)

NoRemoveOf(k) ==
    /\ \A n \in 1..Len(hist) : ~(hist[n].op = "remove" /\ hist[n].key = k)
    /\ \A t \in Workers : ~(thr[t].op = "remove" /\ thr[t].key = k /\ thr[t].pc # "idle")

\* C10: while no thread has called remove(k) for a populated key k, every
\* completed contains(k) returned true and every completed add(k) returned
\* false.
C10_PresentKeyFound ==
    \A n \in 1..Len(hist) :
        (hist[n].key \in initialKeys /\ NoRemoveOf(hist[n].key)) =>
            /\ hist[n].op = "contains" => hist[n].ret
            /\ hist[n].op = "add" => ~hist[n].ret

SlotsOf(k) == {s \in Slots : table[s[1]][s[2]] = k}

(* the completed calls are all add(k), and each overlaps another one *)
OnlyConcurrentAdds(k) ==
    /\ Len(hist) >= 2
    /\ \A n \in 1..Len(hist) : hist[n].op = "add" /\ hist[n].key = k
    /\ \A a \in 1..Len(hist) : \E b \in 1..Len(hist) :
          a # b /\ hist[a].inv < hist[b].res /\ hist[b].inv < hist[a].res

\* C11: when the workers' calls were concurrent add(k) for a key k that was
\* absent, exactly one of them returned true and, once all have returned, k
\* occupies exactly one slot.
C11_ConcurrentAddUnique ==
    \A k \in ConcKeys :
        (WorkersDone /\ k \notin initialKeys /\ OnlyConcurrentAdds(k)) =>
            /\ Cardinality({n \in 1..Len(hist) : hist[n].ret}) = 1
            /\ Cardinality(SlotsOf(k)) = 1

----------------------------------------------------------------------------
(* Properties of the transactional backend *)

RECURSIVE TxReplays(_, _, _)
TxReplays(S, f, n) ==
    IF n > Len(hist) THEN S = TxMembers
    ELSE /\ SeqRet(S, hist[f[n]]) = hist[f[n]].ret
         /\ TxReplays(SeqSet(S, hist[f[n]]), f, n + 1)

\* C12: every add, remove and contains of the transactional set acts as one
\* indivisible step: once the workers' calls have returned, some total order
\* of them that respects real time gives every call the answer of a
\* sequential set and ends in the membership that contains reports.
C12_TxLinearizable ==
    WorkersDone => \E f \in Orders : RealTime(f) /\ TxReplays(initialKeys, f, 1)

----------------------------------------------------------------------------
(* Properties of the driver's size check *)

SuccessfulAdds == Cardinality({n \in 1..Len(hist) : hist[n].op = "add" /\ hist[n].ret})
SuccessfulRemoves == Cardinality({n \in 1..Len(hist) : hist[n].op = "remove" /\ hist[n].ret})

(* expectedSize = initially_added + successful_adds - successful_removes *)
ExpectedSize == thr[Main].added + SuccessfulAdds - SuccessfulRemoves

\* C13: after all workers have joined, size() equals the number of keys
\* populate reported as added, plus the add calls that returned true, minus
\* the remove calls that returned true.
C13_DriverSizeCheck ==
    (WorkersDone /\ \A t \in Workers : thr[t].ops = MaxThreadOps) => size = ExpectedSize

----------------------------------------------------------------------------
(* Progress of the fine-grained backend *)

Pending(t) == thr[t].pc # "idle"

(* resize is not modelled beyond MaxCapacity: a thread that would resize
   again stays in front of it *)
AtMaxCapacity == capacity >= MaxCapacity /\ \E u \in Threads : thr[u].pc = "r_begin"

\* C14: under fair scheduling every call of add, remove and contains that a
\* worker has invoked eventually returns; no thread stays blocked on a slot
\* lock or on the resize lock.
C14_CallsReturn ==
    \A t \in Workers : Pending(t) ~> (~Pending(t) \/ AtMaxCapacity)

----------------------------------------------------------------------------
(* The resize barrier of the fine-grained backend *)

BodyPcs == {BodyOf(pc) : pc \in AcquirePcs}

(* capacity and the salts are those of the new table, table and locks are
   still the old ones *)
HalfResized == \E r \in Threads : thr[r].pc = "r_scan"

(* thread t computes a hash index *)
ComputesIndex(t) == thr[t].pc \in AcquirePcs /\ thr'[t].pc \in BodyPcs \cup {"hung", "crashed"}

(* thread t reads or writes the slot it has locked *)
AccessesSlot(t) == thr[t].pc \in BodyPcs /\ thr'[t].pc # thr[t].pc

\* C15: no thread computes a hash index while another thread's resize has
\* changed capacity and the salts but not yet the tables and the locks, and
\* no thread accesses a slot of the new tables with an index it computed
\* before the resize.
C15_ResizeBarrier ==
    [][\A t \in Threads :
          /\ ComputesIndex(t) => ~HalfResized
          /\ AccessesSlot(t) => thr[t].lk[3] = lockGen]_vars

----------------------------------------------------------------------------
(* Rehash failures *)

KeysOf(tbl) == {tbl[tb][j] : tb \in DOMAIN tbl, j \in DOMAIN tbl[0]} \ {Null}

(* the keys of the old table that the scan of resize has passed *)
ScannedKeys(t) ==
    {table[p \div thr[t].oldCapacity][p % thr[t].oldCapacity] : p \in 0..(thr[t].pos - 1)} \ {Null}

\* C16: resize never goes on with a key that was stored before the resize
\* missing from the new tables; a key that cannot be placed within the
\* doubled budget would be a fatal error (fine-grained backend, one thread).
C16_RehashNeverSilent ==
    \A t \in Threads : thr[t].pc = "r_scan" => ScannedKeys(t) \subseteq KeysOf(thr[t].newTable)

----------------------------------------------------------------------------
(* Workers on pairwise disjoint keys, transactional backend *)

PairsDone == started /\ \A t \in Workers : thr[t].pc = "idle" /\ thr[t].ops = 2 * MaxPairs

\* C17: when every worker calls add(k); remove(k) on a key of its own that
\* is absent at the start, every add and every remove returns true, and
\* after the workers have finished size() is the size at the start.
C17_DisjointPairs ==
    /\ \A n \in DOMAIN hist : hist[n].ret
    /\ PairsDone => size = thr[Main].size0

----------------------------------------------------------------------------
(* The exit code of the driver *)

\* C18: the driver exits with 0 if the size check passes and with a nonzero
\* code if the expected size differs from the observed size (fine-grained
\* backend).
C18_ExitCode ==
    thr[Main].pc = "exited" => (thr[Main].exitCode = 0 <=> size = ExpectedSize)

----------------------------------------------------------------------------
(* Locking discipline of the fine-grained backend *)

(* the value whose slot thread t is inspecting or modifying *)
CurrentValue(t) ==
    IF thr[t].pc \in {"a0_body", "a1_body"} THEN thr[t].displaced ELSE thr[t].key

HoldsBothLocks(t) ==
    LET v == CurrentValue(t) IN
    /\ hash1(v) \in DOMAIN locks[0]
    /\ locks[0][hash1(v)] = t
    /\ hash2(v) \in DOMAIN locks[1]
    /\ locks[1][hash2(v)] = t

\* C29: every add, remove and contains on key k, and every step of a
\* displacement chain for its floating key, holds both slot locks
\* locks[0][h1(k)] and locks[1][h2(k)] at the same time while it inspects or
\* modifies those slots.
C29_BothSlotLocks ==
    \A t \in Threads : thr[t].pc \in BodyPcs => HoldsBothLocks(t)

----------------------------------------------------------------------------
(* Locking discipline of the probing variant *)

(* thread t is in lock() on a mutex that thread u owns *)
WaitsFor(t, u) ==
    /\ u # t
    /\ \/ thr[t].pc = "wait0" /\ locks[0][thr[t].widx].owner = u
       \/ thr[t].pc = "wait1" /\ locks[1][thr[t].widx].owner = u
       \/ thr[t].pc = "rz_lock" /\ thr[t].li < NumLocks /\ locks[0][thr[t].li].owner = u

RECURSIVE WaitPath(_, _, _)
WaitPath(t, u, n) ==
    \/ WaitsFor(t, u)
    \/ n > 0 /\ \E w \in Threads : WaitsFor(t, w) /\ WaitPath(w, u, n - 1)

WaitCycle == \E t \in Threads : WaitPath(t, t, NumThreads)

OwnsTableOneLock(t) == \E h \in DOMAIN locks[1] : locks[1][h].owner = t

(* thread t is in lock() on a mutex of table 0 it does not own *)
WaitsForTableZero(t) ==
    \/ thr[t].pc = "wait0"
    \/ thr[t].pc = "rz_lock" /\ thr[t].li < NumLocks /\ ~Available(t, 0, thr[t].li)

NoWaitCycle == ~WaitCycle

\* C30: add, remove, contains, relocate and resize acquire the slot locks in
\* one global order: no thread waits for a lock of table 0 while it owns a
\* lock of table 1, and the wait-for relation between the threads has no
\* cycle.
C30_LockOrder ==
    /\ \A t \in Threads : WaitsForTableZero(t) => ~OwnsTableOneLock(t)
    /\ ~WaitCycle

----------------------------------------------------------------------------
(* The salts *)

\* C27: the two salts are different in every reachable state, at
\* construction and after every resize (in the probing variant the second
\* salt, salt0, is the variable salt2).
C27_SaltsDiffer == salt1 # salt2

----------------------------------------------------------------------------
(* The resize guard of the transactional set *)

TxResizeBodyPcs == {"x_extract", "x_alloc", "x_readd"}
InResizeBody(t) == thr[t].pc \in TxResizeBodyPcs
Resizers == {t \in Threads : InResizeBody(t)}

(* C31: in the transactional set at most one thread at a time is between
   the successful compare-and-set of resizing and the store of false, and
   resizing is true exactly while some thread is there. *)
C31_OneResizer ==
    ~Crashed => /\ Cardinality(Resizers) <= 1
                /\ resizing <=> Resizers # {}

(* one thread is re-adding inside resize while another is at the guard *)
C31_Witness ==
    /\ ~Crashed
    /\ resizing
    /\ \E t, u \in Threads : /\ t # u
                             /\ thr[t].pc = "x_readd"
                             /\ thr[u].pc = "x_cas"

(* thread t executes an atomic block of contains, remove or add: it reads
   capacity and the salts, and reads or writes the tables *)
TxAccesses(t) ==
    /\ thr[t].pc \in {"t_contains", "t_remove", "t_check", "t_chain"}
    /\ thr'[t] # thr[t]

(* thread t finds the guard taken and goes back to its add *)
TxRetries(t) == thr[t].pc = "x_cas" /\ thr'[t].pc = "t_check"

(* C32: in the transactional set, while a thread is executing resize no
   other thread's add, remove or contains reads or writes the tables,
   capacity or the salts, and a thread that finds the guard taken retries
   its operation only after that resize has completed. *)
C32_ResizeExclusive ==
    [][\A t \in Threads : /\ TxAccesses(t) => ~resizing
                          /\ TxRetries(t) => ~resizing']_vars

----------------------------------------------------------------------------
(* Atomic regions of the transactional set *)

(* how deep the atomic regions are nested that the step at pc executes:
   remove, contains and the displacement loop of add each open one region;
   the first region of add calls contains, which opens its own *)
TxRegionDepth(pc) ==
    CASE pc = "t_contains" -> 1
      [] pc = "t_remove"   -> 1
      [] pc = "t_check"    -> 2
      [] pc = "t_chain"    -> 1
      [] OTHER             -> 0

(* C33: in the transactional set no thread begins an atomic region while
   it is inside an atomic region; no operation that opens its own region
   is called from inside a region of add. *)
C33_NoNestedRegion ==
    [][\A t \in Threads : TxAccesses(t) => TxRegionDepth(thr[t].pc) <= 1]_vars

----------------------------------------------------------------------------
(* Vector bounds in the fine-grained backend *)

(* C34: in the fine-grained backend every index a thread uses to access
   locks[t] is smaller than the length of locks[t] and every index it uses
   to access table[t] is smaller than the length of table[t], also while
   another thread's resize has doubled capacity and not yet replaced table
   and locks. *)
C34_IndicesInRange ==
    [][\A t \in Threads :
          /\ ComputesIndex(t) => IndexOf(thr[t]) \in DOMAIN locks[TableOf(thr[t].pc)]
          /\ AccessesSlot(t) => thr[t].lk[2] \in DOMAIN table[thr[t].lk[1]]]_vars

----------------------------------------------------------------------------
(* Entries of the transactional set *)

(* the step deletes an Entry that is already deleted: the leftover of add
   is the Entry add made or an Entry deleted before, resize or remove
   deletes through a slot that points to a deleted Entry *)
FreesTwice ==
    \E t \in Threads :
       /\ thr'[t] # thr[t]
       /\ \/ /\ thr[t].pc = "t_chain"
             /\ LET st == TxChain(table, thr[t].key) IN
                   /\ ~st.stray
                   /\ st.temp # Null
                   /\ st.mine = <<>> \/ Dangling(st.temp)
          \/ /\ thr[t].pc = "x_extract"
             /\ HasDangling
          \/ /\ thr[t].pc = "t_remove"
             /\ ~TxOutOfRange(thr[t].key)
             /\ TxFind(thr[t].key) # <<>>
             /\ Dangling(table[TxFind(thr[t].key)[1]][TxFind(thr[t].key)[2]])

(* C35: in the transactional set used by one thread no table slot ever
   refers to an Entry that has been freed and no Entry is freed twice. *)
C35_NoDanglingEntry ==
    [][~HasDangling' /\ ~FreesTwice]_vars

----------------------------------------------------------------------------
(* Lifetime of the slot locks in the fine-grained backend *)

(* locks = std::move(newLocks): the mutexes of the old vector are destroyed *)
ReplacesLocks == lockGen' # lockGen

(* a thread holds a slot lock; a thread that waits for a slot lock waits
   for one that is held *)
SomeLockHeld == \E tb \in 0..1 : \E h \in DOMAIN locks[tb] : locks[tb][h] # Null

(* C36: in the fine-grained backend resize never replaces or destroys a
   slot lock while another thread holds it or waits for it, and every
   unlock is applied to a lock that still exists. *)
C36_LocksOutliveHolders ==
    [][/\ ReplacesLocks => ~SomeLockHeld
       /\ \A t \in Threads :
             AccessesSlot(t) => /\ thr[t].lk[3] = lockGen
                                /\ thr[t].lk[2] \in DOMAIN locks[thr[t].lk[1]]]_vars

----------------------------------------------------------------------------
(* The locks resize takes in the probing variant *)

(* how many times thread t has locked locks[0][h] without unlocking it *)
HeldCount(lk, t, h) == IF lk[0][h].owner = t THEN lk[0][h].count ELSE 0

(* resize reaches its end *)
ResizeCompletes(t) ==
    /\ thr[t].pc = "rz_readd"
    /\ thr[t].old = <<>>
    /\ thr'[t] # thr[t]

(* resize returns because capacity is no longer the one it read *)
ResizeGivesUp(t) ==
    /\ thr[t].pc = "rz_lock"
    /\ thr[t].li = NumLocks
    /\ capacity # thr[t].oldCapacity
    /\ thr'[t] # thr[t]

(* the lock of table 0 that the add called again after resize takes *)
RetryLocks(t, h) ==
    /\ (IF thr[t].pc = "rz_readd" THEN thr[t].afterOuter ELSE thr[t].after) = "retry"
    /\ h = LockIndex(0, thr[t].key)

(* resize has unlocked locks[0][h] once by the time it returns *)
UnlockedOnReturn(t, h) ==
    HeldCount(locks', t, h) =
        HeldCount(locks, t, h) - 1 + (IF RetryLocks(t, h) THEN 1 ELSE 0)

(* C37: in the probing variant, on every path on which resize returns
   after its lock loop, the calling thread has released every lock of
   table 0 that it acquired inside resize, also on the path where it finds
   that another thread has changed capacity. *)
C37_ResizeReleasesLocks ==
    [][\A t \in Threads :
          (ResizeCompletes(t) \/ ResizeGivesUp(t)) =>
              \A h \in DOMAIN locks[0] : UnlockedOnReturn(t, h)]_vars

----------------------------------------------------------------------------
(* The resize flag of the probing variant *)

(* thread t is between is_resizing = true and the return of resize: in the
   re-add loop or in an add that loop has called *)
InProbeResize(t) == thr[t].pc = "rz_readd" \/ thr[t].inner

(* C38: in the probing variant is_resizing is false again once a resize
   has completed, so that a later add that finds both probe sets full can
   resize a second time and return. *)
C38_FlagReset ==
    ~Crashed => (resizing => \E t \in Threads : InProbeResize(t))

----------------------------------------------------------------------------
(* Probe sets *)

Buckets == {<<tb, h>> : tb \in 0..1, h \in DOMAIN table[0]}

(* how often val occurs in a probe set *)
Occurs(bucket, val) == Cardinality({n \in 1..Len(bucket) : bucket[n] = val})

SameElements(b1, b2) == \A val \in ProbeKeys : Occurs(b1, val) = Occurs(b2, val)

(* thread t executes the locked part of one round of relocate *)
RelocateRound(t) == thr[t].pc = "rl_body" /\ thr'[t] # thr[t]

(* the round of thread t takes val out of table[i][hi] and puts it into
   the probe set of val in the other table; nothing else changes *)
MovesOne(t) ==
    LET val == thr[t].rval
        i   == thr[t].i
        j   == 1 - thr[t].i
        hi  == thr[t].hi
        hj  == IF j = 0 THEN hash1(val) ELSE hash2(val)
    IN  /\ DOMAIN table' = DOMAIN table
        /\ DOMAIN table'[0] = DOMAIN table[0]
        /\ Occurs(table'[i][hi], val) = Occurs(table[i][hi], val) - 1
        /\ Occurs(table'[j][hj], val) = Occurs(table[j][hj], val) + 1
        /\ \A b \in Buckets, v \in ProbeKeys :
              (v # val \/ b \notin {<<i, hi>>, <<j, hj>>}) =>
                  Occurs(table'[b[1]][b[2]], v) = Occurs(table[b[1]][b[2]], v)

(* the round leaves every probe set with the elements it had *)
MovesNone ==
    /\ DOMAIN table'[0] = DOMAIN table[0]
    /\ \A b \in Buckets : SameElements(table'[b[1]][b[2]], table[b[1]][b[2]])

ProbeSetsBounded == \A b \in Buckets : Len(table[b[1]][b[2]]) <= PROBE_SIZE

(* C39 as stated: in the probing variant every probe set holds at most
   PROBE_SIZE elements in every reachable state, and every round of
   relocate moves exactly one element from its probe set to the probe set
   of that element in the other table. *)
C39_ExactlyOnePerRound ==
    /\ []ProbeSetsBounded
    /\ [][\A t \in Threads : RelocateRound(t) => MovesOne(t)]_vars

(* C39, amended: in the probing variant every probe set holds at most
   PROBE_SIZE elements in every reachable state, and every round of
   relocate either moves one element from its probe set to the probe set
   of that element in the other table, or (the element is gone, or the
   other probe set is full) leaves every probe set with the elements it
   had; no round duplicates or drops an element. *)
C39_AtMostOnePerRound ==
    /\ []ProbeSetsBounded
    /\ [][\A t \in Threads : RelocateRound(t) => (MovesOne(t) \/ MovesNone)]_vars

(* a round has moved rval into a probe set that is now full, and relocate
   goes on from there *)
C39_Witness ==
    \E t \in Threads :
       /\ thr[t].pc = "rl_front"
       /\ thr[t].round >= 1
       /\ thr[t].hi \in DOMAIN table[thr[t].i]
       /\ Len(table[thr[t].i][thr[t].hi]) = PROBE_SIZE
       /\ In(table[thr[t].i][thr[t].hi], thr[t].rval)

----------------------------------------------------------------------------
(* populate of SequentialCuckooSet *)

(* C40: populate adds every element of the list: a duplicate is skipped
   and does not stop later elements from being added, so after
   populate(list) every distinct value of list is in the set. *)
C40_PopulateAddsAll ==
    (Idle /\ last.op = "populate") =>
        \A n \in 1..Len(last.list) : contains(last.list[n])
====
